---- MODULE Spec2Model ----
(***************************************************************************)
(* kagent: the agent conversation core.                                    *)
(*   - Agent.chat            (kagent/core/agent.py)   the tool-calling loop *)
(*   - ContextManager        (kagent/core/context.py) token accounting and  *)
(*                                                    compression          *)
(*   - ToolManager           (kagent/core/tool.py)    tool execution        *)
(*   - InteractionManager    (kagent/interaction/manager.py) the registry   *)
(*                                                                         *)
(* InteractionManager drives the loop on the runtime held by the agent's   *)
(* context manager (self.agent.context.runtime); Agent.chat is the loop it *)
(* calls.  Strings are kept as strings; the token length of a string is    *)
(* given by Tok.  The suspension points of a turn are the model call and   *)
(* the tool handlers; everything between two of them is one atomic step.   *)
(***************************************************************************)
EXTENDS Integers, Sequences, FiniteSets, TLC

\* ------------------------------------------------------------------ bounds
MaxTurns == 2          \* handle_request calls started in one behaviour
MaxInFlight == 2       \* handle_request calls in flight at once
MaxToolRounds == 1     \* tool-call responses the model gives in one behaviour
MaxCalls == 2          \* tool calls in one model response

\* ------------------------------------------------------- program constants
max_iterations == 100  \* Agent.__init__: self.max_iterations
CfgMaxTokens == 10     \* AgentRuntime.max_tokens as configured here
CfgRatio10 == 7        \* AgentRuntime.ratio_of_compress, in tenths (0.7)

SessionIds == {"s1", "s2"}
\* _generate_session_id: the ids /new makes from the clock, one per second
TimeIds == <<"t1", "t2">>
AllIds == SessionIds \cup {TimeIds[i] : i \in 1..Len(TimeIds)}
NoSession == "None"
Req == 1..MaxInFlight
UserTexts == {"hi"}
KeepChoices == {1, 3}

LimitReply == "Too many tool calls, please try again later."
SystemPrompt == "system prompt"
RegisteredTools == {"read"}
ToolNames == {"read", "ghost"}

\* --------------------------------------------------------------- messages
\* A message of conversation_history.  tool_call_id 0 and name "" stand for
\* an absent key.  turn is history of the model only: the handle_request
\* call that appended the message (0 for none).
Msg(role, content, tool_calls, tool_call_id, name, turn) ==
  [role |-> role, content |-> content, tool_calls |-> tool_calls,
   tool_call_id |-> tool_call_id, name |-> name, turn |-> turn]

\* len(self.encoding.encode(s)): the token length of a string.
Tok(s) ==
  CASE s = "" -> 0
    [] s = "BIG" -> 4
    [] s = "[Tool: read] Result" -> 2
    [] s = "[Tool: read] Error" -> 2
    [] s = "[Tool: ghost] Error" -> 2
    [] s = "[summary] s" -> 2
    [] s = "[summary] BIG" -> 5
    [] s = "[skills] sk" -> 2
    [] OTHER -> 1

RECURSIVE SumCalls(_)
SumCalls(tcs) ==
  IF tcs = <<>> THEN 0
  ELSE Tok(Head(tcs).name) + Tok(Head(tcs).arguments) + SumCalls(Tail(tcs))

RECURSIVE count_tokens(_)
count_tokens(h) ==
  IF h = <<>> THEN 0
  ELSE Tok(Head(h).content) + SumCalls(Head(h).tool_calls) + count_tokens(Tail(h))

\* int(max_tokens * ratio_of_compress)
Threshold(rt) == (rt.max_tokens * rt.ratio10) \div 10

should_compress(rt) == rt.token_count > Threshold(rt)

clear_history(rt) == [rt EXCEPT !.conversation_history = <<>>, !.token_count = 0]

LastN(h, n) == SubSeq(h, Len(h) - n + 1, Len(h))

\* compress_context called while an event loop is running (every call made
\* from handle_request): asyncio.run raises, the fallback keeps the tail.
compress_context(rt, has_llm) ==
  LET h == rt.conversation_history
      keep_n == rt.keep_last_n_messages
  IN IF h = <<>> THEN rt
     ELSE IF ~has_llm THEN clear_history(rt)
     ELSE IF Len(h) <= keep_n THEN clear_history(rt)
     ELSE LET kept == LastN(h, keep_n)
          IN [rt EXCEPT !.conversation_history = kept,
                        !.token_count = count_tokens(kept)]

\* the texts the client may return as a summary, and the content of the
\* summary message built from one (lines 366-372)
Summaries == {"", "s", "BIG"}

SummaryContent(summary) ==
  IF summary = "BIG" THEN "[summary] BIG" ELSE "[summary] s"

\* compress_context lines 362-386: the summary call returned summary
compress_summary(rt, summary) ==
  LET h == rt.conversation_history
      kept == LastN(h, rt.keep_last_n_messages)
      head == IF summary # ""
              THEN <<Msg("assistant", SummaryContent(summary), <<>>, 0, "", 0)>>
              ELSE <<>>
      meta == IF rt.loaded_skills # <<>>
              THEN <<Msg("assistant", "[skills] sk", <<>>, 0, "", 0)>>
              ELSE <<>>
      new == head \o meta \o kept
  IN [rt EXCEPT !.conversation_history = new, !.token_count = count_tokens(new)]

\* compress_context called with no event loop running (a synchronous caller
\* of the ContextManager): asyncio.run completes the summary call, which
\* returns summary or raises (fails)
compress_direct(rt, has_llm, summary, fails) ==
  LET h == rt.conversation_history
      keep_n == rt.keep_last_n_messages
  IN IF h = <<>> THEN rt
     ELSE IF ~has_llm THEN clear_history(rt)
     ELSE IF Len(h) <= keep_n THEN clear_history(rt)
     ELSE IF fails
     THEN LET kept == LastN(h, keep_n)
          IN [rt EXCEPT !.conversation_history = kept,
                        !.token_count = count_tokens(kept)]
     ELSE compress_summary(rt, summary)

recount_incremental(rt, m) ==
  [rt EXCEPT !.conversation_history = Append(rt.conversation_history, m),
             !.token_count = rt.token_count + Tok(m.content) + SumCalls(m.tool_calls)]

\* add_message lines 212-217: the message is appended and token_count is
\* counted again over the whole history
recount(rt, m) ==
  LET h1 == Append(rt.conversation_history, m)
  IN [rt EXCEPT !.conversation_history = h1, !.token_count = count_tokens(h1)]

add_message(rt, has_llm, m) ==
  LET rt1 == recount(rt, m)
  IN IF should_compress(rt1) THEN compress_context(rt1, has_llm) ELSE rt1

RECURSIVE add_each(_, _, _)
add_each(rt, has_llm, ms) ==
  IF ms = <<>> THEN rt
  ELSE add_each(add_message(rt, has_llm, Head(ms)), has_llm, Tail(ms))

\* number of compress_context runs while appending ms one by one
RECURSIVE compress_runs(_, _, _)
compress_runs(rt, has_llm, ms) ==
  IF ms = <<>> THEN 0
  ELSE (IF should_compress(recount(rt, Head(ms))) THEN 1 ELSE 0)
       + compress_runs(add_message(rt, has_llm, Head(ms)), has_llm, Tail(ms))

\* what one add_message call saw and did: the value should_compress gave at
\* line 220, the history it was evaluated on, and the history afterwards
check_entry(rt, has_llm, m) ==
  LET rt1 == recount(rt, m)
  IN [decision |-> should_compress(rt1),
      before |-> rt1.conversation_history,
      after |-> add_message(rt, has_llm, m).conversation_history,
      max_tokens |-> rt1.max_tokens, ratio10 |-> rt1.ratio10,
      keep_n |-> rt1.keep_last_n_messages,
      has_llm |-> has_llm, skills |-> Len(rt1.loaded_skills)]

\* the add_message calls made while appending ms one by one
RECURSIVE check_log(_, _, _)
check_log(rt, has_llm, ms) ==
  IF ms = <<>> THEN <<>>
  ELSE <<check_entry(rt, has_llm, Head(ms))>>
       \o check_log(add_message(rt, has_llm, Head(ms)), has_llm, Tail(ms))

\* ------------------------------------------------------------------ state
VARIABLES
  current_session_id,   \* InteractionManager.current_session_id
  session_metadata,     \* InteractionManager.session_metadata
  runtime,              \* self.agent.context.runtime, the active AgentRuntime
  disk,                 \* sessions_dir: session id -> record of <id>.json
  ctx_llm,              \* ContextManager.llm_client is configured
  req,                  \* the handle_request calls in flight
  ret,                  \* the handle_request call that returned last
  nturn,                \* handle_request calls started so far
  nextCallId,           \* ids the provider gives to tool calls
  ncompress,            \* compress_context runs so far
  toolRounds,           \* model responses with tool calls so far
  nraise,               \* model calls that raised so far
  clock,                \* datetime.now() in seconds, as an index of TimeIds
  lastText              \* the text of the last handle_request call

vars == <<current_session_id, session_metadata, runtime, disk, ctx_llm,
          req, ret, nturn, nextCallId, ncompress, toolRounds, nraise, clock,
          lastText>>

NoFile == [session_id |-> NoSession]
\* a file <id>.json that json.load rejects
CorruptFile == [session_id |-> "corrupt"]
\* an id that is not a key of session_metadata
NoMeta == [known |-> FALSE, name |-> ""]

\* AgentRuntime(...) with the configured token parameters
AgentRuntime(session_id, keep_n) ==
  [session_id |-> session_id, token_count |-> 0,
   max_tokens |-> CfgMaxTokens, ratio10 |-> CfgRatio10,
   keep_last_n_messages |-> keep_n, system_prompt |-> <<>>,
   loaded_skills |-> <<>>, conversation_history |-> <<>>]

\* Agent.new_session: the system message is put into the history
new_session(session_id, keep_n) ==
  [AgentRuntime(session_id, keep_n) EXCEPT
     !.conversation_history = <<Msg("system", SystemPrompt, <<>>, 0, "", 0)>>]

\* --------------------------------------------------------------- events
\* on_message as the caller passes it: absent (None), or a callback that
\* raises an Exception at the events whose type is in raises
NoCallback == [present |-> FALSE, raises |-> {}]
EventTypes == {"user_input", "assistant_thinking", "tool_call", "tool_result",
               "assistant_response"}
RaiseSets == {{}, {"assistant_thinking", "tool_call"}, {"tool_result"}, EventTypes}
Callbacks == {NoCallback} \cup {[present |-> TRUE, raises |-> S] : S \in RaiseSets}

\* MessageEvent: the factory methods of events.py.  call_id 0 and error ""
\* stand for None.
MessageEvent(type, content, call_id, result, success, error) ==
  [type |-> type, content |-> content, call_id |-> call_id, result |-> result,
   success |-> success, error |-> error]

user_input(content) == MessageEvent("user_input", content, 0, "", TRUE, "")
assistant_thinking(content) ==
  MessageEvent("assistant_thinking", content, 0, "", TRUE, "")
tool_call_anonymous(tc) == MessageEvent("tool_call", tc.name, 0, "", TRUE, "")

tool_call(tc) == MessageEvent("tool_call", tc.name, tc.id, "", TRUE, "")
assistant_response(content) ==
  MessageEvent("assistant_response", content, 0, "", TRUE, "")

\* agent.py 299-306: the event of one tool message tr of execute_tool_calls;
\* success is the literal True, error is left at its default
tool_result(tr) ==
  MessageEvent("tool_result", tr.name, tr.tool_call_id, tr.content, TRUE, "")

\* the callback raises at the event ev
callback_raises(cb, ev) == cb.present /\ ev.type \in cb.raises

emit_unguarded(cb, ev) == callback_raises(cb, ev)

\* emit (agent.py 246-254): the exception of on_message leaves emit.  The
\* call stands in try / except Exception, whose handler prints and goes on.
emit_propagates(cb, ev) == FALSE

\* the index of the first of the events evs whose emit raises, 0 for none
FirstRaise(cb, evs) ==
  IF \E i \in 1..Len(evs) : emit_propagates(cb, evs[i])
  THEN CHOOSE i \in 1..Len(evs) :
         /\ emit_propagates(cb, evs[i])
         /\ \A j \in 1..(i - 1) : ~emit_propagates(cb, evs[j])
  ELSE 0

\* the events on_message was called with when emit ran for evs in turn
Delivered(cb, evs) ==
  IF ~cb.present THEN <<>>
  ELSE IF FirstRaise(cb, evs) = 0 THEN evs
  ELSE SubSeq(evs, 1, FirstRaise(cb, evs))

IdleReq ==
  [pc |-> "idle", text |-> "", sid |-> NoSession, turn |-> 0, iter |-> 0,
   nmodel |-> 0, calls |-> <<>>, running |-> {}, results |-> <<>>,
   reply |-> "", outcome |-> "none", saved |-> "none", failed |-> FALSE,
   log |-> <<>>, ncomp |-> 0, fails |-> {}, sent |-> <<>>, checks |-> <<>>,
   hook |-> "", arg |-> "", loaded |-> "none", answer |-> "",
   action |-> "none", action_sid |-> NoSession, detail |-> {},
   on_message |-> NoCallback, events |-> <<>>,
   enabled_tools |-> <<>>, tools |-> <<>>]

\* the registry after construction on an empty sessions directory, but for
\* the client of the context manager
InitBase ==
  /\ current_session_id = NoSession
  /\ session_metadata = [s \in AllIds |-> NoMeta]
  /\ \E k \in KeepChoices :
       runtime \in {AgentRuntime("", k), new_session("", k)}
  /\ disk = [s \in AllIds |-> NoFile]
  /\ req = [r \in Req |-> IdleReq]
  /\ ret = IdleReq
  /\ nturn = 0
  /\ nextCallId = 1
  /\ ncompress = 0
  /\ toolRounds = 0
  /\ nraise = 0
  /\ clock = 0
  /\ lastText = ""

\* ContextManager(..., llm_client=client)
Init == InitBase /\ ctx_llm = TRUE

\* ContextManager(...) with the client given or left at its default, None
InitCtx == InitBase /\ ctx_llm \in BOOLEAN

\* ---------------------------------------------------------- tool execution
\* ToolResult.to_display_string(), the content of the tool message
to_display_string(name, success) ==
  CASE name = "read" /\ success -> "[Tool: read] Result"
    [] name = "read" /\ ~success -> "[Tool: read] Error"
    [] OTHER -> "[Tool: ghost] Error"

\* the tool message execute_tool_calls builds for one call
ToolMessage(tc, success, turn) ==
  Msg("tool", to_display_string(tc.name, success), <<>>, tc.id, tc.name, turn)

\* ToolManager.execute on a name that is not registered returns at once
\* with success=False: execute_tool_calls goes on to the next call.
RECURSIVE SkipUnknown(_, _, _)
SkipUnknown(calls, results, turn) ==
  IF Len(results) < Len(calls)
     /\ calls[Len(results) + 1].name \notin RegisteredTools
  THEN SkipUnknown(calls,
         Append(results, ToolMessage(calls[Len(results) + 1], FALSE, turn)), turn)
  ELSE results

\* the ids of the calls among the first n that name no registered tool
UnknownIds(calls, n) ==
  {calls[i].id : i \in {j \in 1..n : calls[j].name \notin RegisteredTools}}

\* the result of one awaited handler: ToolManager.execute turns its return
\* value or its exception into a ToolResult, execute_tool_calls appends the
\* tool message
ExecResultRaising(results, tc, ok, turn) ==
  IF ok THEN Append(results, ToolMessage(tc, ok, turn)) ELSE results

ExecResult(results, tc, ok, turn) == Append(results, ToolMessage(tc, ok, turn))

ToStartGathered(calls, results) ==
  {i \in (Len(results) + 1)..Len(calls) : calls[i].name \in RegisteredTools}

\* the handlers execute_tool_calls awaits next: the first call without result
ToStart(calls, results) ==
  IF Len(results) < Len(calls) THEN {Len(results) + 1} ELSE {}

LoopExhaustedLate(iter) == iter = max_iterations + 1

\* for _ in range(self.max_iterations) is exhausted after iter rounds
LoopExhausted(iter) == iter = max_iterations

\* --------------------------------------------------------- the session file
\* AgentRuntime.to_dict reads s.path of every loaded skill; Skill has the
\* field source_path and no path, so the call raises AttributeError as soon
\* as a skill is loaded.
to_dict_raises(rt) == rt.loaded_skills # <<>>

\* AgentRuntime.to_dict: the skills are written as name records, without
\* their content
to_dict(rt) ==
  [session_id |-> rt.session_id, token_count |-> rt.token_count,
   max_tokens |-> rt.max_tokens, ratio10 |-> rt.ratio10,
   keep_last_n_messages |-> rt.keep_last_n_messages,
   system_prompt |-> rt.system_prompt,
   loaded_skills |-> [i \in 1..Len(rt.loaded_skills) |->
                        [name |-> rt.loaded_skills[i].name]],
   conversation_history |-> rt.conversation_history]

\* AgentRuntime.from_dict builds Skill(..., path=...) for every skill record:
\* Skill has no such parameter, the call raises TypeError.
from_dict_raises(data) == data.loaded_skills # <<>>

\* AgentRuntime.from_dict: the skills come back with empty content
from_dict(data) ==
  [session_id |-> data.session_id, token_count |-> data.token_count,
   max_tokens |-> data.max_tokens, ratio10 |-> data.ratio10,
   keep_last_n_messages |-> data.keep_last_n_messages,
   system_prompt |-> data.system_prompt,
   loaded_skills |-> [i \in 1..Len(data.loaded_skills) |->
                        [name |-> data.loaded_skills[i].name, content |-> ""]],
   conversation_history |-> data.conversation_history]

\* _save_session returns True: to_dict did not raise and the write succeeded
SaveOK(rt, io) == io /\ ~to_dict_raises(rt)

\* _save_session(session_id): the record written to <session_id>.json holds
\* the runtime of the agent's context manager.
SessionRecord(session_id) ==
  [session_id |-> session_id,
   name |-> IF session_metadata[session_id].known
            THEN session_metadata[session_id].name ELSE session_id,
   runtime |-> to_dict(runtime)]

\* json.dump into <session_id>.json; io: the write succeeds
WriteFileSkipped(d, session_id, rec, io) == d

WriteFile(d, session_id, rec, io) ==
  IF io THEN [d EXCEPT ![session_id] = rec] ELSE d

\* ------------------------------------------------------------ the turn ends
\* handle_request lines 245-246: except Exception returns the error text
except_clause(rq) ==
  [rq EXCEPT !.pc = "returned", !.outcome = "EXC", !.reply = "Agent error",
             !.failed = TRUE]

\* an exception leaves Agent.chat with the runtime rt: handle_request returns
\* the error text without saving
ChatRaises(r, rq, rt, runs) ==
  /\ runtime' = rt
  /\ ncompress' = ncompress + runs
  /\ disk' = disk
  /\ req' = [req EXCEPT ![r] = IdleReq]
  /\ ret' = except_clause(rq)

\* Agent.chat lines 317-319 and handle_request lines 243-244: the reply is
\* appended, the session saved (io: the write succeeds) and the call returns.
\* pre: compress_context runs made earlier in the same step.
Finish(r, rq, rt, reply, outcome, pre, io) ==
  LET m == Msg("assistant", reply, <<>>, 0, "", rq.turn)
      rt1 == add_message(rt, ctx_llm, m)
      runs == pre + compress_runs(rt, ctx_llm, <<m>>)
      ev == <<assistant_response(reply)>>
      rq1 == [rq EXCEPT !.running = {},
                        !.log = Append(rq.log, m),
                        !.ncomp = rq.ncomp + runs,
                        !.checks = rq.checks \o check_log(rt, ctx_llm, <<m>>),
                        !.events = @ \o Delivered(rq.on_message, ev)]
  IN IF FirstRaise(rq.on_message, ev) # 0
     THEN ChatRaises(r, rq1, rt1, runs)
     ELSE /\ runtime' = rt1
          /\ ncompress' = ncompress + runs
          /\ disk' = WriteFile(disk, current_session_id,
                               [SessionRecord(current_session_id) EXCEPT
                                  !.runtime = to_dict(rt1)], SaveOK(rt1, io))
          /\ req' = [req EXCEPT ![r] = IdleReq]
          /\ ret' = [rq1 EXCEPT !.pc = "returned", !.reply = reply,
                                !.outcome = outcome,
                                !.saved = IF SaveOK(rt1, io) THEN "ok" ELSE "failed"]

\* Agent.chat lines 298-313 once every call has its result: for each tool
\* message the tool_result event is emitted and the message appended; then
\* the loop asks the model again or, after max_iterations rounds, gives the
\* fixed reply.
AfterTools(r, rq, rt, io) ==
  LET rt1 == add_each(rt, ctx_llm, rq.results)
      runs == compress_runs(rt, ctx_llm, rq.results)
      evs == [i \in 1..Len(rq.results) |-> tool_result(rq.results[i])]
      k == FirstRaise(rq.on_message, evs)
      done == SubSeq(rq.results, 1, k - 1)
      rq1 == [rq EXCEPT !.iter = rq.iter + 1, !.running = {},
                        !.log = rq.log \o rq.results,
                        !.checks = rq.checks \o check_log(rt, ctx_llm, rq.results),
                        !.events = @ \o Delivered(rq.on_message, evs)]
  IN IF k # 0
     THEN ChatRaises(r, [rq EXCEPT !.running = {}, !.log = rq.log \o done,
                                   !.events = @ \o Delivered(rq.on_message, evs)],
                     add_each(rt, ctx_llm, done), compress_runs(rt, ctx_llm, done))
     ELSE IF LoopExhausted(rq1.iter)
     THEN Finish(r, rq1, rt1, LimitReply, "LIMIT", runs, io)
     ELSE /\ runtime' = rt1
          /\ ncompress' = ncompress + runs
          /\ req' = [req EXCEPT ![r] =
                       [rq1 EXCEPT !.pc = "model", !.nmodel = rq.nmodel + 1,
                                   !.ncomp = rq.ncomp + runs]]
          /\ UNCHANGED <<disk, ret>>

\* execute_tool_calls between two suspensions: calls of unknown tools get
\* their error result, the next handler is started, or the batch is done.
Proceed(r, rq, rt, io) ==
  LET res == SkipUnknown(rq.calls, rq.results, rq.turn)
      run == rq.running \cup ToStart(rq.calls, res)
      rq1 == [rq EXCEPT !.results = res, !.running = run, !.pc = "tool",
                        !.fails = @ \cup UnknownIds(rq.calls, Len(res))]
  IN IF run = {}
     THEN AfterTools(r, rq1, rt, io)
     ELSE /\ req' = [req EXCEPT ![r] = rq1]
          /\ runtime' = rt
          /\ UNCHANGED <<disk, ret, ncompress>>

\* ---------------------------------------------------------------- actions
\* handle_request up to the first model call (manager.py 221-241,
\* agent.py 256-264): the slot r is the lowest free one; cb is on_message.
StartWith(r, text, sid, cb) ==
  /\ req[r].pc = "idle"
  /\ \A q \in Req : q < r => req[q].pc \in {"model", "tool"}
  /\ nturn < MaxTurns
  /\ LET first == current_session_id = NoSession
         fresh == first /\ ~session_metadata[sid].known
         rt0 == IF fresh THEN [runtime EXCEPT !.session_id = sid] ELSE runtime
         m == Msg("user", text, <<>>, 0, "", nturn + 1)
         runs == compress_runs(rt0, ctx_llm, <<m>>)
         ev == <<user_input(text)>>
         rq0 == [IdleReq EXCEPT !.pc = "model", !.text = text, !.sid = sid,
                                !.turn = nturn + 1, !.nmodel = 1,
                                !.log = <<m>>, !.ncomp = runs,
                                !.sent = add_message(rt0, ctx_llm, m).conversation_history,
                                !.checks = check_log(rt0, ctx_llm, <<m>>),
                                !.on_message = cb,
                                !.events = Delivered(cb, ev)]
     IN /\ current_session_id' = IF first THEN sid ELSE current_session_id
        /\ session_metadata' =
             IF fresh
             THEN [session_metadata EXCEPT ![sid] = [known |-> TRUE, name |-> sid]]
             ELSE session_metadata
        /\ runtime' = add_message(rt0, ctx_llm, m)
        /\ ncompress' = ncompress + runs
        /\ IF FirstRaise(cb, ev) # 0
           THEN req' = req /\ ret' = except_clause(rq0)
           ELSE req' = [req EXCEPT ![r] = rq0] /\ ret' = ret
        /\ nturn' = nturn + 1
  /\ lastText' = text
  /\ UNCHANGED <<disk, ctx_llm, nextCallId, toolRounds, nraise, clock>>

\* handle_request as the registry calls the loop: no callback is passed on
Start(r, text, sid) == StartWith(r, text, sid, NoCallback)

\* the model answers without tool calls (agent.py 266-268, 317-319);
\* failed: the provider caught an error and returned LLMResponse(content=None)
ModelFinal(r, content, failed, io) ==
  /\ req[r].pc = "model"
  /\ failed => content = ""
  /\ Finish(r, [req[r] EXCEPT !.failed = failed, !.answer = content], runtime,
            content, "DONE", 0, io)
  /\ UNCHANGED <<current_session_id, session_metadata, ctx_llm, nturn,
                 nextCallId, toolRounds, nraise, clock, lastText>>

\* the model answers with tool calls (agent.py 270-298): the thinking event
\* is emitted for a non-empty content, the assistant message is appended to
\* the list directly, the tool_call events are emitted, then the calls are
\* executed
ModelToolCalls(r, content, names, io) ==
  /\ req[r].pc = "model"
  /\ LET calls == [i \in 1..Len(names) |->
                     [id |-> nextCallId + i - 1, name |-> names[i],
                      arguments |-> "{}"]]
         m == Msg("assistant", content, calls, 0, "", req[r].turn)
         rt1 == [runtime EXCEPT !.conversation_history = Append(@, m)]
         think == IF content # "" THEN <<assistant_thinking(content)>> ELSE <<>>
         evs == think \o [i \in 1..Len(calls) |-> tool_call(calls[i])]
         k == FirstRaise(req[r].on_message, evs)
         rq0 == [req[r] EXCEPT !.events = @ \o Delivered(req[r].on_message, evs)]
         rq1 == [rq0 EXCEPT !.calls = calls, !.results = <<>>,
                            !.running = {}, !.log = Append(@, m)]
     IN IF k = 0 THEN Proceed(r, rq1, rt1, io)
        ELSE IF k <= Len(think) THEN ChatRaises(r, rq0, runtime, 0)
        ELSE ChatRaises(r, rq1, rt1, 0)
  /\ nextCallId' = nextCallId + Len(names)
  /\ toolRounds' = toolRounds + 1
  /\ UNCHANGED <<current_session_id, session_metadata, ctx_llm, nturn, nraise,
                 clock, lastText>>

\* llm_client.complete raises: no handler in Agent.chat, handle_request
\* line 245 returns the error text; nothing is appended or saved
ModelRaise(r) ==
  /\ req[r].pc = "model"
  /\ req' = [req EXCEPT ![r] = IdleReq]
  /\ ret' = except_clause(req[r])
  /\ nraise' = nraise + 1
  /\ UNCHANGED <<current_session_id, session_metadata, runtime, disk, ctx_llm,
                 nturn, nextCallId, ncompress, toolRounds, clock, lastText>>

\* the handler of call i returns (ok) or raises (tool.py 289-301, 355-362)
ToolFinish(r, i, ok, io) ==
  /\ req[r].pc = "tool"
  /\ i \in req[r].running
  /\ LET rq1 == [req[r] EXCEPT
                   !.results = ExecResult(@, req[r].calls[i], ok, req[r].turn),
                   !.running = @ \ {i},
                   !.fails = IF ok THEN @ ELSE @ \cup {req[r].calls[i].id}]
     IN Proceed(r, rq1, runtime, io)
  /\ UNCHANGED <<current_session_id, session_metadata, ctx_llm, nturn,
                 nextCallId, toolRounds, nraise, clock, lastText>>

\* ------------------------------------------------------------------ hooks
\* A hook command is handled without suspension: handle_request lines
\* 221-237 and the handler are one step.  The handler receives
\* hook_context = {"session_id": session_id} of the request.
SkillNames == {"sk"}
NameArgs == {"", "a"}
Suffixes(base) ==
  CASE base = "a" -> <<"a-1", "a-2", "a-3">>
    [] base = "b" -> <<"b-1", "b-2", "b-3">>
    [] OTHER -> <<"x-1", "x-2", "x-3">>

\* handle_request lines 221-232, before the dispatch
PreCurrent(sid) ==
  IF current_session_id = NoSession THEN sid ELSE current_session_id

PreMeta(sid) ==
  IF current_session_id = NoSession /\ ~session_metadata[sid].known
  THEN [session_metadata EXCEPT ![sid] = [known |-> TRUE, name |-> sid]]
  ELSE session_metadata

PreRuntime(sid) ==
  IF current_session_id = NoSession /\ ~session_metadata[sid].known
  THEN [runtime EXCEPT !.session_id = sid]
  ELSE runtime

\* _save_session(session_id) with the metadata meta and the active runtime rt
save_session(d, meta, session_id, rt, io) ==
  WriteFile(d, session_id,
            [session_id |-> session_id,
             name |-> IF meta[session_id].known THEN meta[session_id].name
                      ELSE session_id,
             runtime |-> to_dict(rt)],
            SaveOK(rt, io))

Saved(rt, io) == IF SaveOK(rt, io) THEN "ok" ELSE "failed"

KnownIds(meta) == {x \in AllIds : meta[x].known}

\* _resolve_session_name: an id of the map, else a session with that name
resolve_session_name(meta, name) ==
  IF name \in KnownIds(meta) THEN name
  ELSE IF \E x \in KnownIds(meta) : meta[x].name = name
       THEN CHOOSE x \in KnownIds(meta) : meta[x].name = name
       ELSE NoSession

RECURSIVE FirstFree(_, _, _)
FirstFree(base, names, k) ==
  IF k >= Len(Suffixes(base)) \/ Suffixes(base)[k] \notin names
  THEN Suffixes(base)[k]
  ELSE FirstFree(base, names, k + 1)

\* _resolve_duplicate_name: base, or base-1, base-2, ...
resolve_duplicate_name(meta, base) ==
  LET names == {meta[x].name : x \in KnownIds(meta)}
  IN IF base \notin names THEN base ELSE FirstFree(base, names, 1)

\* f"session-{session_id}"
AutoName(id) ==
  CASE id = "t1" -> "session-t1"
    [] id = "t2" -> "session-t2"
    [] OTHER -> "session-"

\* the value handle_request returns for a hook command
HookReturn(sid, hook, arg, reply, saved, loaded) ==
  [IdleReq EXCEPT !.pc = "returned", !.text = hook, !.sid = sid,
                  !.turn = nturn + 1, !.outcome = "HOOK", !.reply = reply,
                  !.saved = saved, !.hook = hook, !.arg = arg,
                  !.loaded = loaded]

\* "/clear": hook_clear_session
HookClear(sid, io) ==
  /\ nturn < MaxTurns
  /\ LET rt1 == clear_history(PreRuntime(sid))
     IN /\ runtime' = rt1
        /\ disk' = save_session(disk, PreMeta(sid), sid, rt1, io)
        /\ ret' = HookReturn(sid, "/clear", "", "Session history cleared.",
                             Saved(rt1, io), "none")
  /\ current_session_id' = PreCurrent(sid)
  /\ session_metadata' = PreMeta(sid)
  /\ nturn' = nturn + 1
  /\ UNCHANGED <<ctx_llm, req, nextCallId, ncompress, toolRounds, nraise, clock>>

\* "/compress": hook_compress_session; the handler is a coroutine, so
\* compress_context runs inside the event loop
HookCompress(sid, io) ==
  /\ nturn < MaxTurns
  /\ LET rt0 == PreRuntime(sid)
         rt1 == compress_context(rt0, ctx_llm)
     IN IF rt0.conversation_history = <<>>
        THEN /\ runtime' = rt0
             /\ ret' = HookReturn(sid, "/compress", "",
                                  "History is empty, nothing to compress.",
                                  "none", "none")
             /\ UNCHANGED <<disk, ncompress>>
        ELSE /\ runtime' = rt1
             /\ disk' = save_session(disk, PreMeta(sid), sid, rt1, io)
             /\ ncompress' = ncompress + 1
             /\ ret' = HookReturn(sid, "/compress", "", "Context compressed",
                                  Saved(rt1, io), "none")
  /\ current_session_id' = PreCurrent(sid)
  /\ session_metadata' = PreMeta(sid)
  /\ nturn' = nturn + 1
  /\ UNCHANGED <<ctx_llm, req, nextCallId, toolRounds, nraise, clock>>

\* a command that changes nothing: "/history", "/tools", "/list" (query), a
\* name that is not registered (unknown), a handler that raises (raise)
HookKinds == {"query", "unknown", "raise"}

HookOther(sid, kind) ==
  /\ nturn < MaxTurns
  /\ runtime' = PreRuntime(sid)
  /\ current_session_id' = PreCurrent(sid)
  /\ session_metadata' = PreMeta(sid)
  /\ ret' = HookReturn(sid, kind, "",
                       CASE kind = "unknown" -> "Unknown hook"
                         [] kind = "raise" -> "Error executing hook"
                         [] OTHER -> "result",
                       "none", "none")
  /\ nturn' = nturn + 1
  /\ UNCHANGED <<disk, ctx_llm, req, nextCallId, ncompress, toolRounds, nraise,
                 clock>>

\* _rebuild_system_prompt: _build_skills_xml reads skill.path for every
\* loaded skill (context.py 163-168); Skill has the field source_path and no
\* path, the read raises AttributeError
rebuild_raises(rt) == rt.loaded_skills # <<>>

\* _rebuild_system_prompt when it does not raise: system_prompt stands for
\* the <skills> block of the prompt, the names of the skills it lists (no
\* skill manager is attached, the block lists the loaded skills only)
rebuild_system_prompt(rt) ==
  [rt EXCEPT !.system_prompt =
     [i \in 1..Len(rt.loaded_skills) |-> rt.loaded_skills[i].name]]

\* the call of _rebuild_system_prompt that ends load_skill, unload_skill and
\* clear_skills: value is what the method returns when the call returns
rebuild_then(rt, value) ==
  IF rebuild_raises(rt) THEN [value |-> "AttributeError", runtime |-> rt]
  ELSE [value |-> value, runtime |-> rebuild_system_prompt(rt)]

\* ContextManager.load_skill(skill)
load_skill(rt, name) ==
  IF \E i \in 1..Len(rt.loaded_skills) : rt.loaded_skills[i].name = name
  THEN [value |-> "False", runtime |-> rt]
  ELSE rebuild_then([rt EXCEPT !.loaded_skills =
                        Append(@, [name |-> name, content |-> "text"])],
                    "True")

\* ContextManager.unload_skill(skill_name)
unload_skill(rt, name) ==
  LET rt1 == [rt EXCEPT !.loaded_skills = SelectSeq(@, LAMBDA sk : sk.name # name)]
  IN IF Len(rt1.loaded_skills) < Len(rt.loaded_skills)
     THEN rebuild_then(rt1, "True")
     ELSE [value |-> "False", runtime |-> rt1]

\* ContextManager.clear_skills()
clear_skills(rt) == rebuild_then([rt EXCEPT !.loaded_skills = <<>>], "None")

\* "/new [name]": hook_new_session.  adv: the clock has moved to the next
\* second since the last id was made; io1, io2: the two writes succeed.
\* The new runtime takes the token parameters of the process configuration,
\* which every runtime of the process is built from.
\* _generate_session_id: the wall clock, to the second
generate_session_id(adv) == TimeIds[clock + (IF adv THEN 1 ELSE 0)]

\* the name the new session gets (lines 327-332)
new_session_name(meta, name, id) ==
  IF name = "" THEN AutoName(id) ELSE resolve_duplicate_name(meta, name)

HookNew(sid, name, adv, io1, io2) ==
  /\ nturn < MaxTurns
  /\ clock + (IF adv THEN 1 ELSE 0) \in 1..Len(TimeIds)
  /\ LET id == generate_session_id(adv)
         meta0 == PreMeta(sid)
         cur0 == PreCurrent(sid)
         rt0 == PreRuntime(sid)
         nm == new_session_name(meta0, name, id)
         meta1 == [meta0 EXCEPT ![id] = [known |-> TRUE, name |-> nm]]
         d1 == save_session(disk, meta1, cur0, rt0, io1)
         rt1 == [AgentRuntime(id, rt0.keep_last_n_messages) EXCEPT
                   !.loaded_skills = rt0.loaded_skills]
     IN /\ session_metadata' = meta1
        /\ runtime' = rt1
        /\ IF rebuild_raises(rt1)
           THEN \* update_runtime has put rt1 in place (context.py 492) when
                \* it raises: lines 361-363 are not reached, dispatch
                \* catches the exception
                /\ current_session_id' = cur0
                /\ disk' = d1
                /\ ret' = [HookReturn(sid, "/new", name, "Error executing hook",
                                      "none", "none")
                             EXCEPT !.detail = {"/new", "AttributeError"}]
           ELSE /\ current_session_id' = id
                /\ disk' = save_session(d1, meta1, id, rt1, io2)
                /\ ret' = [HookReturn(sid, "/new", name, "Created new session",
                                      Saved(rt1, io2), "none")
                             EXCEPT !.detail = {nm, id}]
  /\ clock' = clock + (IF adv THEN 1 ELSE 0)
  /\ nturn' = nturn + 1
  /\ UNCHANGED <<ctx_llm, req, nextCallId, ncompress, toolRounds, nraise>>

\* _load_session(session_id) on the files d: what it found (loaded), the
\* metadata and the active runtime afterwards
load_session(d, meta, rt, session_id) ==
  LET data == d[session_id]
      meta1 == [meta EXCEPT ![session_id] = [known |-> TRUE, name |-> data.name]]
  IN IF data = NoFile
     THEN [loaded |-> "missing", meta |-> meta, runtime |-> rt]
     ELSE IF data = CorruptFile
     THEN [loaded |-> "corrupt", meta |-> meta, runtime |-> rt]
     ELSE IF from_dict_raises(data.runtime)
     THEN [loaded |-> "raise", meta |-> meta1, runtime |-> rt]
     ELSE [loaded |-> "ok", meta |-> meta1,
           runtime |-> [from_dict(data.runtime) EXCEPT !.session_id = session_id]]

files_saved_first(d, d1) == d1

\* hook_switch_session lines 393-395: the return for an unknown target stands
\* before the save of line 398, the files d stay as they are
files_not_found(d, d1) == d

\* "/switch <target>": hook_switch_session
HookSwitch(sid, target, io) ==
  /\ nturn < MaxTurns
  /\ LET meta0 == PreMeta(sid)
         cur0 == PreCurrent(sid)
         rt0 == PreRuntime(sid)
         id == resolve_session_name(meta0, target)
         d1 == save_session(disk, meta0, cur0, rt0, io)
         l == load_session(d1, meta0, rt0, id)
     IN IF id = NoSession
        THEN /\ session_metadata' = meta0
             /\ runtime' = rt0
             /\ current_session_id' = cur0
             /\ ret' = HookReturn(sid, "/switch", target, "not found", "none", "none")
             /\ disk' = files_not_found(disk, d1)
        ELSE /\ disk' = d1
             /\ session_metadata' = l.meta
             /\ runtime' = l.runtime
             /\ current_session_id' = IF l.loaded = "ok" THEN id ELSE cur0
             /\ ret' = HookReturn(sid, "/switch", target,
                                  IF l.loaded = "ok" THEN "Switched to session"
                                  ELSE "Failed to load session",
                                  Saved(rt0, io), l.loaded)
  /\ nturn' = nturn + 1
  /\ UNCHANGED <<ctx_llm, req, nextCallId, ncompress, toolRounds, nraise, clock>>

pop_every(meta, session_id) == [s \in AllIds |-> NoMeta]

\* hook_delete_session line 488: session_metadata.pop(session_id, {})
pop_metadata(meta, session_id) == [meta EXCEPT ![session_id] = NoMeta]

refuse_never(session_id, current) == FALSE

\* hook_delete_session line 476: the target is the active session
refuse_delete(session_id, current) == session_id = current

\* "/delete <target>": hook_delete_session.  io: unlink succeeds
HookDelete(sid, target, io) ==
  /\ nturn < MaxTurns
  /\ LET meta0 == PreMeta(sid)
         cur0 == PreCurrent(sid)
         id == resolve_session_name(meta0, target)
     IN /\ current_session_id' = cur0
        /\ IF id = NoSession
           THEN /\ ret' = HookReturn(sid, "/delete", target, "not found", "none", "none")
                /\ session_metadata' = meta0
                /\ UNCHANGED disk
           ELSE IF refuse_delete(id, cur0)
           THEN /\ ret' = HookReturn(sid, "/delete", target,
                                     "Cannot delete the current active session",
                                     "none", "none")
                /\ session_metadata' = meta0
                /\ UNCHANGED disk
           ELSE IF disk[id] # NoFile /\ ~io
           THEN /\ ret' = HookReturn(sid, "/delete", target,
                                     "Error deleting session file", "none", "none")
                /\ session_metadata' = meta0
                /\ UNCHANGED disk
           ELSE /\ ret' = HookReturn(sid, "/delete", target, "Deleted session",
                                     "none", "none")
                /\ session_metadata' = pop_metadata(meta0, id)
                /\ disk' = [disk EXCEPT ![id] = NoFile]
  /\ runtime' = PreRuntime(sid)
  /\ nturn' = nturn + 1
  /\ UNCHANGED <<ctx_llm, req, nextCallId, ncompress, toolRounds, nraise, clock>>

\* "/rename <name>": hook_rename_session
HookRename(sid, name, io) ==
  /\ nturn < MaxTurns
  /\ LET meta0 == PreMeta(sid)
         cur0 == PreCurrent(sid)
         rt0 == PreRuntime(sid)
         resolved_name == resolve_duplicate_name(meta0, name)
         meta1 == [meta0 EXCEPT ![cur0].name = name]
     IN /\ current_session_id' = cur0
        /\ runtime' = rt0
        /\ IF resolved_name # name
           THEN /\ ret' = HookReturn(sid, "/rename", name, "already exists",
                                     "none", "none")
                /\ session_metadata' = meta0
                /\ UNCHANGED disk
           ELSE /\ ret' = HookReturn(sid, "/rename", name, "Renamed session",
                                     Saved(rt0, io), "none")
                /\ session_metadata' = meta1
                /\ disk' = save_session(disk, meta1, cur0, rt0, io)
  /\ nturn' = nturn + 1
  /\ UNCHANGED <<ctx_llm, req, nextCallId, ncompress, toolRounds, nraise, clock>>

\* ContextManager.load_skill of a skill that is not loaded yet
LoadSkill(name) ==
  /\ load_skill(runtime, name).value # "False"
  /\ runtime' = load_skill(runtime, name).runtime
  /\ UNCHANGED <<current_session_id, session_metadata, disk, ctx_llm, req, ret,
                 nturn, nextCallId, ncompress, toolRounds, nraise, clock, lastText>>

\* ContextManager.unload_skill(name): the list is rebuilt without the skill
UnloadSkill(name) ==
  /\ unload_skill(runtime, name).value # "False"
  /\ runtime' = unload_skill(runtime, name).runtime
  /\ UNCHANGED <<current_session_id, session_metadata, disk, ctx_llm, req, ret,
                 nturn, nextCallId, ncompress, toolRounds, nraise, clock, lastText>>

\* the file of a session is damaged from outside: json.load will reject it
Damage(s) ==
  /\ disk[s] \notin {NoFile, CorruptFile}
  /\ disk' = [disk EXCEPT ![s] = CorruptFile]
  /\ UNCHANGED <<current_session_id, session_metadata, runtime, ctx_llm, req, ret,
                 nturn, nextCallId, ncompress, toolRounds, nraise, clock, lastText>>

\* ---------------------------------------------------------- specifications
FinalContents == {"", "ok"}
ThinkContents == {"", "think"}
\* the tool names of a response: registered tools, or an unknown tool first
CallNames ==
  {[i \in 1..n |-> IF i = g THEN "ghost" ELSE "read"] : n \in 1..MaxCalls, g \in 0..1}

\* no handle_request call is in flight
Idle == \A q \in Req : req[q].pc = "idle"

\* the registry as it runs: calls for any session may overlap
Next ==
  \E r \in Req :
    \/ \E text \in UserTexts, sid \in SessionIds : Start(r, text, sid)
    \/ \E c \in FinalContents, f, io \in BOOLEAN : ModelFinal(r, c, f, io)
    \/ \E c \in ThinkContents, ns \in CallNames, io \in BOOLEAN :
         toolRounds < MaxToolRounds /\ ModelToolCalls(r, c, ns, io)
    \/ ModelRaise(r)
    \/ \E i \in 1..MaxCalls, ok, io \in BOOLEAN : ToolFinish(r, i, ok, io)

Spec == Init /\ [][Next]_vars

\* one adapter: the next message is sent when the previous call has returned
NextSerial ==
  \E r \in Req :
    \/ \E text \in UserTexts, sid \in SessionIds : Idle /\ Start(r, text, sid)
    \/ \E c \in FinalContents, f, io \in BOOLEAN : ModelFinal(r, c, f, io)
    \/ \E c \in ThinkContents, ns \in CallNames, io \in BOOLEAN :
         toolRounds < MaxToolRounds /\ ModelToolCalls(r, c, ns, io)
    \/ ModelRaise(r)
    \/ \E i \in 1..MaxCalls, ok, io \in BOOLEAN : ToolFinish(r, i, ok, io)

SpecSerial == Init /\ [][NextSerial]_vars

\* one handle_request call on a registry just constructed, with every
\* answer of the model and every outcome of the tools
NextTurn ==
  \E r \in Req :
    \/ \E text \in UserTexts, sid \in SessionIds : nturn = 0 /\ Start(r, text, sid)
    \/ \E c \in FinalContents, f, io \in BOOLEAN : ModelFinal(r, c, f, io)
    \/ \E c \in ThinkContents, ns \in CallNames, io \in BOOLEAN :
         toolRounds < MaxToolRounds /\ ModelToolCalls(r, c, ns, io)
    \/ ModelRaise(r)
    \/ \E i \in 1..MaxCalls, ok, io \in BOOLEAN : ToolFinish(r, i, ok, io)

SpecTurn == Init /\ [][NextTurn]_vars

\* one handle_request call, with or without a client for the summaries
SpecCtx == InitCtx /\ [][NextTurn]_vars

\* the registry serving one adapter with chat turns and hook commands; the
\* model answers "ok", fails, or asks once for the tool read
SwitchTargets == AllIds \cup {"a"}

ChatStep(r) ==
  \/ \E sid \in SessionIds : Idle /\ Start(r, "hi", sid)
  \/ \E f, io \in BOOLEAN : ModelFinal(r, IF f THEN "" ELSE "ok", f, io)
  \/ \E io \in BOOLEAN :
       toolRounds < MaxToolRounds /\ ModelToolCalls(r, "", <<"read">>, io)
  \/ ModelRaise(r)
  \/ \E ok, io \in BOOLEAN : ToolFinish(r, 1, ok, io)

HookStep ==
  /\ \/ \E sid \in SessionIds, io \in BOOLEAN : HookClear(sid, io)
     \/ \E sid \in SessionIds, io \in BOOLEAN : HookCompress(sid, io)
     \/ \E sid \in SessionIds, kind \in HookKinds : HookOther(sid, kind)
     \/ \E sid \in SessionIds, name \in NameArgs, adv, io \in BOOLEAN :
          HookNew(sid, name, adv, io, io)
     \/ \E sid \in SessionIds, target \in SwitchTargets, io \in BOOLEAN :
          HookSwitch(sid, target, io)
  /\ lastText' = ret'.hook

NextSessions ==
  \/ \E r \in Req : ChatStep(r)
  \/ Idle /\ HookStep
  \/ \E name \in SkillNames : Idle /\ LoadSkill(name)
  \/ \E s \in AllIds : Idle /\ Damage(s)

SpecSessions == InitCtx /\ [][NextSessions]_vars

\* the registry serving the session s1 while things fail: the client or a
\* tool raises, a hook handler raises, a write fails, a record is damaged
\* or missing when it is loaded
NextServe ==
  \/ \E r \in Req :
       \/ Idle /\ Start(r, "hi", "s1")
       \/ \E io \in BOOLEAN : ModelFinal(r, "ok", FALSE, io)
       \/ toolRounds < MaxToolRounds /\ ModelToolCalls(r, "", <<"read">>, TRUE)
       \/ ModelRaise(r)
       \/ \E ok, io \in BOOLEAN : ToolFinish(r, 1, ok, io)
  \/ Idle /\ HookOther("s1", "raise") /\ lastText' = ret'.hook
  \/ \E io \in BOOLEAN : Idle /\ HookSwitch("s1", "s1", io) /\ lastText' = ret'.hook
  \/ Idle /\ Damage("s1")

SpecServe == Init /\ [][NextServe]_vars

\* the registry on a sessions directory that can always be written and that
\* nobody else touches: chat turns of the adapter s1, /new, /switch, and
\* skills loaded into and unloaded from the active context
NextSkills ==
  \/ \E r \in Req :
       \/ Idle /\ Start(r, "hi", "s1")
       \/ ModelFinal(r, "ok", FALSE, TRUE)
  \/ /\ Idle
     /\ \/ \E name \in NameArgs : HookNew("s1", name, TRUE, TRUE, TRUE)
        \/ \E target \in SwitchTargets : HookSwitch("s1", target, TRUE)
     /\ lastText' = ret'.hook
  \/ \E name \in SkillNames : Idle /\ LoadSkill(name)
  \/ \E name \in SkillNames : Idle /\ UnloadSkill(name)

SpecSkills == Init /\ [][NextSkills]_vars

\* the ContextManager's skill methods called by a synchronous caller, and
\* the inheritance of the loaded skills through /new
DirectSkills == {"sk", "sk2", "sk3"}

\* a call of the method op with the outcome res; what the caller sees of it
SkillCall(op, name, res) ==
  /\ runtime' = res.runtime
  /\ ret' = [IdleReq EXCEPT
               !.pc = "returned", !.hook = op, !.arg = name,
               !.reply = res.value,
               !.checks = <<[before |-> runtime.loaded_skills,
                             after |-> res.runtime.loaded_skills,
                             prompt_before |-> runtime.system_prompt,
                             prompt_after |-> res.runtime.system_prompt]>>]
  /\ UNCHANGED <<current_session_id, session_metadata, disk, ctx_llm, req,
                 nturn, nextCallId, ncompress, toolRounds, nraise, clock, lastText>>

NextSkillSet ==
  \/ \E name \in DirectSkills :
       SkillCall("load_skill", name, load_skill(runtime, name))
  \/ \E name \in DirectSkills :
       SkillCall("unload_skill", name, unload_skill(runtime, name))
  \/ SkillCall("clear_skills", "", clear_skills(runtime))
  \/ /\ \E name \in NameArgs : HookNew("s1", name, TRUE, TRUE, TRUE)
     /\ lastText' = ret'.hook

SpecSkillSet == Init /\ [][NextSkillSet]_vars

\* the registry constructed on a sessions directory that holds the records
\* of s1 and s2: _load_all_sessions fills the session map and loads the
\* session that was active last
StoredHistory(s) ==
  IF s = "s1"
  THEN <<Msg("user", "hi", <<>>, 0, "", 0), Msg("assistant", "ok", <<>>, 0, "", 0)>>
  ELSE <<Msg("user", "hi", <<>>, 0, "", 0)>>

StoredRuntime(s, k) ==
  [AgentRuntime(s, k) EXCEPT !.conversation_history = StoredHistory(s),
                             !.token_count = count_tokens(StoredHistory(s))]

InitLoaded ==
  /\ \E n1 \in {"s1", "a"}, n2 \in {"s2", "a-1"}, latest \in SessionIds :
       LET meta == [s \in AllIds |->
                      IF s = "s1" THEN [known |-> TRUE, name |-> n1]
                      ELSE IF s = "s2" THEN [known |-> TRUE, name |-> n2]
                      ELSE NoMeta]
           d == [s \in AllIds |->
                   IF s \in SessionIds
                   THEN [session_id |-> s, name |-> meta[s].name,
                         runtime |-> to_dict(StoredRuntime(s, 3))]
                   ELSE NoFile]
       IN /\ session_metadata = meta
          /\ disk = d
          /\ current_session_id = latest
          /\ runtime = load_session(d, meta, AgentRuntime("", 3), latest).runtime
  /\ ctx_llm = TRUE
  /\ req = [r \in Req |-> IdleReq]
  /\ ret = IdleReq
  /\ nturn = 0
  /\ nextCallId = 1
  /\ ncompress = 0
  /\ toolRounds = 0
  /\ nraise = 0
  /\ clock = 0
  /\ lastText = ""

RenameArgs == {"a", "b"}

\* the adapter of s1 sends session commands and chat texts
NextRegistry ==
  \/ \E r \in Req : Idle /\ Start(r, "hi", "s1")
  \/ \E r \in Req : ModelFinal(r, "ok", FALSE, TRUE)
  \/ /\ Idle
     /\ \/ \E name \in NameArgs, io \in BOOLEAN : HookNew("s1", name, TRUE, io, io)
        \/ \E target \in SwitchTargets, io \in BOOLEAN : HookSwitch("s1", target, io)
        \/ \E target \in SwitchTargets, io \in BOOLEAN : HookDelete("s1", target, io)
        \/ \E name \in RenameArgs, io \in BOOLEAN : HookRename("s1", name, io)
     /\ lastText' = ret'.hook

SpecRegistry == InitLoaded /\ [][NextRegistry]_vars

\* the same adapter, with a name that is also an id of the session map
NextNames ==
  \/ \E r \in Req : Idle /\ Start(r, "hi", "s1")
  \/ \E r \in Req : ModelFinal(r, "ok", FALSE, TRUE)
  \/ /\ Idle
     /\ \/ \E name \in NameArgs : HookNew("s1", name, TRUE, TRUE, TRUE)
        \/ \E target \in SwitchTargets : HookSwitch("s1", target, TRUE)
        \/ \E target \in SwitchTargets : HookDelete("s1", target, TRUE)
        \/ \E name \in {"a", "s2"} : HookRename("s1", name, TRUE)
     /\ lastText' = ret'.hook

SpecNames == InitLoaded /\ [][NextNames]_vars

\* the ContextManager used by a synchronous caller, with no event loop
\* running: add_message and compress_context on the active runtime
MaxHist == 3
DirectContents == {"hi", "BIG"}

DirectReturn(op, rt0, rt1, decision) ==
  [IdleReq EXCEPT !.pc = "returned", !.hook = op,
                  !.checks = <<[decision |-> decision,
                                before |-> rt0.conversation_history,
                                after |-> rt1.conversation_history,
                                max_tokens |-> rt0.max_tokens,
                                ratio10 |-> rt0.ratio10,
                                keep_n |-> rt0.keep_last_n_messages,
                                has_llm |-> ctx_llm,
                                skills |-> Len(rt0.loaded_skills)]>>]

AddDirect(role, content, summary, fails) ==
  /\ Len(runtime.conversation_history) < MaxHist
  /\ LET rt1 == recount(runtime, Msg(role, content, <<>>, 0, "", 0))
         rt2 == IF should_compress(rt1)
                THEN compress_direct(rt1, ctx_llm, summary, fails)
                ELSE rt1
     IN /\ runtime' = rt2
        /\ ret' = DirectReturn("add_message", rt1, rt2, should_compress(rt1))
  /\ UNCHANGED <<current_session_id, session_metadata, disk, ctx_llm, req, nturn,
                 nextCallId, ncompress, toolRounds, nraise, clock, lastText>>

CompressDirect(summary, fails) ==
  /\ runtime.conversation_history # <<>>
  /\ LET rt1 == compress_direct(runtime, ctx_llm, summary, fails)
     IN /\ runtime' = rt1
        /\ ret' = DirectReturn("compress_context", runtime, rt1, TRUE)
  /\ UNCHANGED <<current_session_id, session_metadata, disk, ctx_llm, req, nturn,
                 nextCallId, ncompress, toolRounds, nraise, clock, lastText>>

NextContext ==
  \/ \E role \in {"user", "assistant"}, content \in DirectContents,
        summary \in Summaries, fails \in BOOLEAN :
       AddDirect(role, content, summary, fails)
  \/ \E summary \in Summaries, fails \in BOOLEAN : CompressDirect(summary, fails)
  \/ \E name \in SkillNames : LoadSkill(name)

SpecContext == InitCtx /\ [][NextContext]_vars

\* ------------------------------------------------------ HookDispatcher
\* _register_hooks: the names handed to HookDispatcher.register
HookNames == {"/clear", "/compress", "/save", "/history", "/tools", "/new", "/switch", "/list", "/delete", "/rename"}

\* the texts an adapter hands to handle_request, and the words that occur in
\* them
Texts == {"hi", " hi ", "h/clear", " ", "/", "/clear", " /clear ", "/CLEAR", "/clear x", "/history", "/history x", "/nosuch", "/Switch s2", "/switch zz", "/switch"}
Words == {"s1", "s2", "zz", "x", "a", "/nosuch", "/"}
Strings == Texts \cup HookNames \cup Words

\* the characters of a string
Chars(s) ==
  CASE s = "hi" -> <<"h", "i">>
    [] s = " hi " -> <<" ", "h", "i", " ">>
    [] s = "h/clear" -> <<"h", "/", "c", "l", "e", "a", "r">>
    [] s = " " -> <<" ">>
    [] s = "/" -> <<"/">>
    [] s = "/clear" -> <<"/", "c", "l", "e", "a", "r">>
    [] s = " /clear " -> <<" ", "/", "c", "l", "e", "a", "r", " ">>
    [] s = "/CLEAR" -> <<"/", "C", "L", "E", "A", "R">>
    [] s = "/clear x" -> <<"/", "c", "l", "e", "a", "r", " ", "x">>
    [] s = "/history" -> <<"/", "h", "i", "s", "t", "o", "r", "y">>
    [] s = "/history x" -> <<"/", "h", "i", "s", "t", "o", "r", "y", " ", "x">>
    [] s = "/nosuch" -> <<"/", "n", "o", "s", "u", "c", "h">>
    [] s = "/Switch s2" -> <<"/", "S", "w", "i", "t", "c", "h", " ", "s", "2">>
    [] s = "/switch zz" -> <<"/", "s", "w", "i", "t", "c", "h", " ", "z", "z">>
    [] s = "/switch" -> <<"/", "s", "w", "i", "t", "c", "h">>
    [] s = "/compress" -> <<"/", "c", "o", "m", "p", "r", "e", "s", "s">>
    [] s = "/save" -> <<"/", "s", "a", "v", "e">>
    [] s = "/tools" -> <<"/", "t", "o", "o", "l", "s">>
    [] s = "/new" -> <<"/", "n", "e", "w">>
    [] s = "/list" -> <<"/", "l", "i", "s", "t">>
    [] s = "/delete" -> <<"/", "d", "e", "l", "e", "t", "e">>
    [] s = "/rename" -> <<"/", "r", "e", "n", "a", "m", "e">>
    [] s = "s1" -> <<"s", "1">>
    [] s = "s2" -> <<"s", "2">>
    [] s = "zz" -> <<"z", "z">>
    [] s = "x" -> <<"x">>
    [] s = "a" -> <<"a">>
    [] OTHER -> <<>>

\* str.lower on one character and on a string
lower_char(c) ==
  CASE c = "A" -> "a"
    [] c = "C" -> "c"
    [] c = "E" -> "e"
    [] c = "L" -> "l"
    [] c = "R" -> "r"
    [] c = "S" -> "s"
    [] OTHER -> c

lower(t) == [i \in 1..Len(t) |-> lower_char(t[i])]

\* str.strip
RECURSIVE lstrip(_)
lstrip(t) == IF t # <<>> /\ Head(t) = " " THEN lstrip(Tail(t)) ELSE t

RECURSIVE rstrip(_)
rstrip(t) ==
  IF t # <<>> /\ t[Len(t)] = " " THEN rstrip(SubSeq(t, 1, Len(t) - 1)) ELSE t

strip(t) == rstrip(lstrip(t))

\* str.split(): the words between runs of whitespace
RECURSIVE split(_)
split(t) ==
  LET u == lstrip(t)
      n == IF \E i \in 1..Len(u) : u[i] = " "
           THEN CHOOSE i \in 1..Len(u) :
                  u[i] = " " /\ \A j \in 1..(i - 1) : u[j] # " "
           ELSE Len(u) + 1
  IN IF u = <<>> THEN <<>>
     ELSE <<SubSeq(u, 1, n - 1)>> \o split(SubSeq(u, n, Len(u)))

\* the string with the characters t ("?" for one that is not in Strings)
Str(t) ==
  IF \E x \in Strings : Chars(x) = t THEN CHOOSE x \in Strings : Chars(x) = t
  ELSE "?"

\* HookDispatcher.register lowers the name; self.hooks after _register_hooks
register(name) == lower(Chars(name))
hooks == {register(name) : name \in HookNames}

dispatch_untrimmed(text) ==
  LET t == Chars(text)
      parts == split(t)
  IN IF t = <<>> \/ Head(t) # "/" THEN [kind |-> "none", name |-> <<>>, args |-> <<>>]
     ELSE [kind |-> IF lower(parts[1]) \in hooks THEN "call" ELSE "unknown",
           name |-> lower(parts[1]), args |-> Tail(parts)]

dispatch_exact(text) ==
  LET t == strip(Chars(text))
      parts == split(t)
  IN IF t = <<>> \/ Head(t) # "/" THEN [kind |-> "none", name |-> <<>>, args |-> <<>>]
     ELSE [kind |-> IF parts[1] \in hooks THEN "call" ELSE "unknown",
           name |-> parts[1], args |-> Tail(parts)]

\* HookDispatcher.dispatch up to the handler call: none (the text is no
\* hook), unknown (the name is not registered) or call, with the name and
\* the positional arguments
dispatch(text) ==
  LET t == strip(Chars(text))
      parts == split(t)
      hook_name == lower(parts[1])
  IN IF t = <<>> \/ Head(t) # "/" THEN [kind |-> "none", name |-> <<>>, args |-> <<>>]
     ELSE [kind |-> IF hook_name \in hooks THEN "call" ELSE "unknown",
           name |-> hook_name, args |-> Tail(parts)]

\* what dispatch makes of each text, with the name as a string
Dispatched ==
  [text \in Texts |->
     [kind |-> dispatch(text).kind, hook |-> Str(dispatch(text).name),
      args |-> dispatch(text).args]]

\* the positional arguments a handler accepts besides hook_context: none for
\* hook_clear_session, hook_compress_session, hook_show_history,
\* hook_list_tools and hook_list_sessions, one for hook_save_session, any
\* number for the handlers declared with *args
MaxArgs == 9
Arity(name) ==
  CASE name \in {"/clear", "/compress", "/history", "/tools", "/list"} -> 0
    [] name = "/save" -> 1
    [] OTHER -> MaxArgs

ErrResultRaised(sid, name, exc) ==
  [IdleReq EXCEPT !.pc = "raised", !.text = name, !.sid = sid,
                  !.turn = nturn + 1, !.outcome = "RAISED", !.hook = "raise",
                  !.arg = name]

\* dispatch lines 89-90: the exception of the handler becomes
\* HookResult.error("Error executing hook <name>: <exception>")
ErrResult(sid, name, exc) ==
  [HookReturn(sid, "raise", name, "Error executing hook", "none", "none")
     EXCEPT !.detail = {name, exc}]

\* dispatch lines 74-76: the name is not registered
HookUnknown(sid, name) ==
  /\ nturn < MaxTurns
  /\ runtime' = PreRuntime(sid)
  /\ current_session_id' = PreCurrent(sid)
  /\ session_metadata' = PreMeta(sid)
  /\ ret' = [HookReturn(sid, "unknown", name, "Unknown hook", "none", "none")
               EXCEPT !.detail = {Str(n) : n \in hooks}]
  /\ nturn' = nturn + 1
  /\ UNCHANGED <<disk, ctx_llm, req, nextCallId, ncompress, toolRounds, nraise,
                 clock>>

\* the call of the handler raises before the handler has run: the number of
\* positional arguments does not fit its signature
HookRaise(sid, name, exc) ==
  /\ nturn < MaxTurns
  /\ runtime' = PreRuntime(sid)
  /\ current_session_id' = PreCurrent(sid)
  /\ session_metadata' = PreMeta(sid)
  /\ ret' = ErrResult(sid, name, exc)
  /\ nturn' = nturn + 1
  /\ UNCHANGED <<disk, ctx_llm, req, nextCallId, ncompress, toolRounds, nraise,
                 clock>>

\* handle_request(text, session_id): the dispatch, then the handler of the
\* hook or the first step of Agent.chat
HandleText(r, text, sid) ==
  LET d == Dispatched[text]
      name == d.hook
  IN /\ lastText' = text
     /\ \/ d.kind = "none" /\ Start(r, text, sid)
        \/ d.kind = "unknown" /\ HookUnknown(sid, name)
        \/ d.kind = "call" /\ Len(d.args) > Arity(name)
             /\ HookRaise(sid, name, "TypeError")
        \/ d.kind = "call" /\ Len(d.args) <= Arity(name) /\
             \/ name = "/clear" /\ \E io \in BOOLEAN : HookClear(sid, io)
             \/ name \in {"/history", "/tools", "/list"} /\ HookOther(sid, "query")
             \/ name = "/switch" /\ d.args = <<>> /\ HookOther(sid, "query")
             \/ name = "/switch" /\ d.args # <<>>
                  /\ \E io \in BOOLEAN : HookSwitch(sid, Str(d.args[1]), io)

\* one adapter sending texts; the model answers "ok" or raises
NextText ==
  \/ \E r \in Req, text \in Texts : Idle /\ HandleText(r, text, "s1")
  \/ \E r \in Req : ModelFinal(r, "ok", FALSE, TRUE)
  \/ \E r \in Req : ModelRaise(r)

SpecText == Init /\ [][NextText]_vars

\* handle_request with the HookDispatcher of hook.py: dispatch(text, runtime)
\* has no parameter hook_context, so the call of line 235, which stands
\* before the try of line 240, raises TypeError once lines 221-232 have run
RequestTexts == UserTexts \cup {"/clear", "/new", "/nosuch"}

DispatchMismatch(text, sid) ==
  /\ nturn < MaxTurns
  /\ current_session_id' = PreCurrent(sid)
  /\ session_metadata' = PreMeta(sid)
  /\ runtime' = PreRuntime(sid)
  /\ ret' = [IdleReq EXCEPT !.pc = "raised", !.text = text, !.sid = sid,
                            !.turn = nturn + 1, !.outcome = "RAISED",
                            !.failed = TRUE]
  /\ nturn' = nturn + 1
  /\ lastText' = text
  /\ UNCHANGED <<disk, ctx_llm, req, nextCallId, ncompress, toolRounds, nraise,
                 clock>>

NextDispatch ==
  \E text \in RequestTexts, sid \in SessionIds : Idle /\ DispatchMismatch(text, sid)

SpecDispatch == InitCtx /\ [][NextDispatch]_vars

\* a model that keeps asking for a tool: every response either is final or
\* carries one call of a registered tool, and the handler returns; the
\* provider never raises (both providers of the repository catch).
LimitStep(r) ==
  \/ \E c \in FinalContents, f, io \in BOOLEAN : ModelFinal(r, c, f, io)
  \/ \E io \in BOOLEAN : ModelToolCalls(r, "", <<"read">>, io)
  \/ \E io \in BOOLEAN : ToolFinish(r, 1, TRUE, io)

\* one chat call, followed to its end
NextLimit ==
  \E r \in Req :
    \/ nturn = 0 /\ Start(r, "hi", "s1")
    \/ LimitStep(r)

SpecLimit == Init /\ [][NextLimit]_vars

\* ------------------------------------------------------ the tools offered
\* AgentConfig.tools as the configuration gives it: a string or a list
ToolValues ==
  {[kind |-> "str", text |-> t, items |-> <<>>] :
     t \in {"all", "none", "", "read", "ghost,read"}}
  \cup {[kind |-> "list", text |-> "", items |-> l] :
          l \in {<<>>, <<"all">>, <<"none">>, <<"read">>, <<"ghost">>,
                 <<"read", "ghost">>, <<"ghost", "read">>, <<"read", "">>,
                 <<"all", "read">>}}

\* [t.strip() for t in value.split(",") if t.strip()]
CommaSplit(text) ==
  CASE text = "read" -> <<"read">>
    [] text = "ghost,read" -> <<"ghost", "read">>
    [] OTHER -> <<>>

\* AgentConfig._normalize_tools_skills on values in lower case
normalize_tools_skills(value) ==
  IF value.kind = "str"
  THEN IF value.text = "all" THEN <<"all">>
       ELSE IF value.text = "none" \/ value.text = "" THEN <<>>
       ELSE CommaSplit(value.text)
  ELSE IF Len(value.items) = 1 /\ value.items[1] = "all" THEN <<"all">>
       ELSE IF Len(value.items) = 1 /\ value.items[1] = "none" THEN <<>>
       ELSE SelectSeq(value.items, LAMBDA t : t # "")

\* the methods the class ToolManager defines (tool.py 202-364)
ToolManagerMethods ==
  {"load_builtin_tools", "add_tools", "register", "unregister", "get_tool",
   "list_tools", "get_openai_tools", "execute", "execute_multiple",
   "execute_tool_calls"}

\* Tool.to_openai_format
to_openai_format(name) == [type |-> "function", name |-> name]

\* the definitions of the registered tools
AllDefinitions == <<to_openai_format("read")>>

\* Agent._get_tool_definitions: the definitions, or raised when the call of
\* a method that ToolManager does not define raises AttributeError
get_tool_definitions(tool_names) ==
  IF Len(tool_names) = 1 /\ tool_names[1] = "all"
  THEN IF "get_all_tools" \in ToolManagerMethods
       THEN [raised |-> FALSE, tools |-> AllDefinitions]
       ELSE [raised |-> TRUE, tools |-> <<>>]
  ELSE IF tool_names = <<>>
  THEN [raised |-> FALSE, tools |-> <<>>]
  ELSE IF "has_tool" \in ToolManagerMethods
  THEN [raised |-> FALSE,
        tools |-> LET kept == SelectSeq(tool_names,
                                        LAMBDA n : n \in RegisteredTools)
                  IN [i \in 1..Len(kept) |-> to_openai_format(kept[i])]]
  ELSE [raised |-> TRUE, tools |-> <<>>]

\* a chat call on a session whose enabled tools come from the configuration
\* value: Agent.chat line 259 resolves the tools before the first model
\* call; an exception leaves Agent.chat
ResolveTools(value) ==
  /\ nturn < MaxTurns
  /\ LET names == normalize_tools_skills(value)
         res == get_tool_definitions(names)
         rq == [IdleReq EXCEPT !.pc = "returned", !.text = "hi",
                               !.turn = nturn + 1, !.detail = {value},
                               !.enabled_tools = names, !.tools = res.tools]
     IN ret' = IF res.raised THEN except_clause(rq)
               ELSE [rq EXCEPT !.outcome = "TOOLS"]
  /\ nturn' = nturn + 1
  /\ UNCHANGED <<current_session_id, session_metadata, runtime, disk, ctx_llm,
                 req, nextCallId, ncompress, toolRounds, nraise, clock, lastText>>

NextTools == \E value \in ToolValues : ResolveTools(value)

SpecTools == Init /\ [][NextTools]_vars

\* one handle_request call that hands the callback cb of the adapter on to
\* Agent.chat, with every answer of the model and every outcome of the tools
NextEvents ==
  \E r \in Req :
    \/ \E cb \in Callbacks : nturn = 0 /\ StartWith(r, "hi", "s1", cb)
    \/ \E f \in BOOLEAN : ModelFinal(r, IF f THEN "" ELSE "ok", f, TRUE)
    \/ \E c \in ThinkContents, ns \in CallNames :
         toolRounds < MaxToolRounds /\ ModelToolCalls(r, c, ns, TRUE)
    \/ ModelRaise(r)
    \/ \E i \in 1..MaxCalls, ok \in BOOLEAN : ToolFinish(r, i, ok, TRUE)

\* the registry just constructed, its runtime new and without a conversation
InitEvents == Init /\ runtime = AgentRuntime("", 3)

SpecEvents == InitEvents /\ [][NextEvents]_vars

\* ------------------------------------------------------------- properties
History == runtime.conversation_history
Returned == ret.pc = "returned"
\* the calls in flight and the one that returned last
Calls == {req[r] : r \in Req} \cup {ret}
ErrorTexts == {to_display_string(n, FALSE) : n \in ToolNames}

\* every completed tool round of the call q is, in the messages q appended,
\* the assistant message followed by one tool message per call, in order
RoundsOK(q) ==
  \A p \in 1..Len(q.log) :
    LET tcs == q.log[p].tool_calls
        n == Len(tcs)
    IN tcs # <<>> /\ ~(q.pc = "tool" /\ p = Len(q.log)) =>
         /\ q.log[p].role = "assistant"
         /\ p + n <= Len(q.log)
         /\ \A i \in 1..n : /\ q.log[p + i].role = "tool"
                            /\ q.log[p + i].tool_call_id = tcs[i].id
                            /\ q.log[p + i].name = tcs[i].name
         /\ p + n + 1 <= Len(q.log) => q.log[p + n + 1].role # "tool"

\* what a call appended is what the history holds at its return, as long as
\* the turn ran no compression
LogInHistory ==
  Idle /\ Returned /\ ret.turn = nturn /\ ret.ncomp = 0 =>
    /\ Len(ret.log) <= Len(History)
    /\ LastN(History, Len(ret.log)) = ret.log

\* C1: the messages appended by one handle_request call form one contiguous
\* block of the session's conversation_history, also when a second call for
\* the session starts while the first is suspended (stated for calls that
\* all name the current session).
C1_NoInterleaving ==
  (\A q \in Calls : q.pc # "idle" => q.sid = current_session_id) =>
    \A i \in 1..Len(History) : \A k \in i..Len(History) :
      History[i].turn # 0 /\ History[i].turn = History[k].turn =>
        \A j \in i..k : History[j].turn = History[i].turn

\* C2: the messages of a handle_request(text, session_id) call are appended
\* to the history of the session named by session_id and to no other
\* session's: the runtime that holds them is the runtime of session_id.
C2_OwnSession ==
  Returned =>
    \A i \in 1..Len(History) :
      History[i].turn = ret.turn => runtime.session_id = ret.sid

\* C3: in every reachable conversation_history every tool message answers a
\* call of the nearest preceding assistant message, with only tool messages
\* in between.
C3_ToolPairing ==
  \A i \in 1..Len(History) :
    History[i].role = "tool" =>
      \E j \in 1..(i - 1) :
        /\ History[j].role = "assistant"
        /\ \E c \in 1..Len(History[j].tool_calls) :
             History[j].tool_calls[c].id = History[i].tool_call_id
        /\ \A k \in (j + 1)..(i - 1) : History[k].role = "tool"

\* C4: the tool calls of one response run one at a time in the order of the
\* response (the handler of a call starts when all earlier calls have their
\* result), and one tool message per call is appended, in that order, after
\* the assistant message that carries the calls.
C4_SequentialTools ==
  /\ \A q \in Calls :
       /\ q.pc = "tool" => q.running = {Len(q.results) + 1}
       /\ Len(q.results) <= Len(q.calls)
       /\ \A i \in 1..Len(q.results) : q.results[i].tool_call_id = q.calls[i].id
       /\ RoundsOK(q)
  /\ LogInHistory

C4_Witness ==
  /\ Returned /\ ret.outcome = "DONE"
  /\ \E p \in 1..Len(ret.log) : Len(ret.log[p].tool_calls) = 2
                               /\ ret.log[p].tool_calls[1].name = "read"
                               /\ ret.log[p].tool_calls[2].name = "read"

\* C5: a chat call makes at most max_iterations model calls and ends either
\* DONE, on the first response without tool calls (which is its last model
\* call), or ITERATION_LIMIT_EXCEEDED, after max_iterations responses that
\* all carried tool calls; and every chat call ends: each step of a call in
\* flight ends it or advances it through the bounded loop (a later round, or
\* in the same round from the model call to the tools, or one more result).
C5_Safe ==
  /\ \A q \in Calls :
       /\ q.nmodel <= max_iterations
       /\ q.iter <= max_iterations
       /\ q.pc \in {"model", "tool"} => q.nmodel = q.iter + 1
  /\ Returned =>
       /\ ret.outcome \in {"DONE", "LIMIT"}
       /\ ret.outcome = "DONE" => ret.nmodel = ret.iter + 1
       /\ ret.outcome = "LIMIT" <=> ret.iter = max_iterations
       /\ ret.outcome = "LIMIT" => ret.nmodel = max_iterations

C5_Advances(q, q1) ==
  \/ q1.pc = "idle"
  \/ q1.iter > q.iter /\ q1.iter <= max_iterations
  \/ /\ q1.iter = q.iter
     /\ \/ q.pc = "model" /\ q1.pc = "tool"
        \/ /\ q.pc = "tool" /\ q1.pc = "tool"
           /\ Len(q1.results) > Len(q.results) /\ Len(q1.results) <= Len(q1.calls)

C6_LimitReply ==
  Returned /\ ret.outcome = "LIMIT" =>
    LET m == Msg("assistant", LimitReply, <<>>, 0, "", ret.turn)
    IN /\ ret.reply = LimitReply
       /\ ret.log[Len(ret.log)] = m
       /\ ret.saved \in {"ok", "failed"}
       /\ Idle /\ ret.turn = nturn =>
            /\ History = <<>> \/ History[Len(History)] = m
            /\ ret.saved = "ok" =>
                 /\ disk[current_session_id] # NoFile
                 /\ disk[current_session_id].runtime = to_dict(runtime)

C6_Witness ==
  /\ Returned /\ ret.outcome = "LIMIT" /\ ret.saved = "ok"
  /\ History # <<>> /\ History[Len(History)].content = LimitReply

\* C7: a tool call whose handler raises, or that names an unknown tool, gets
\* a tool message with the error text that answers the call; the other
\* calls of the response are executed all the same, the loop goes on to the
\* next model call, and no exception leaves the loop because of it.
C7_ToolFailure ==
  \A q \in Calls :
    LET done == {q.log[p] : p \in 1..Len(q.log)}
                \cup {q.results[i] : i \in 1..Len(q.results)}
    IN /\ \A id \in q.fails :
            \E m \in done : /\ m.role = "tool" /\ m.tool_call_id = id
                            /\ m.content = to_display_string(m.name, FALSE)
       /\ \A m \in done :
            m.role = "tool" /\ m.content \in ErrorTexts => m.tool_call_id \in q.fails
       /\ RoundsOK(q)
       /\ q.pc = "model" => q.nmodel = q.iter + 1
       /\ q.outcome = "EXC" => q.failed

C7_Witness ==
  /\ Returned /\ ret.outcome = "DONE" /\ ret.nmodel = 2
  /\ \E p \in 1..Len(ret.log) :
       /\ Len(ret.log[p].tool_calls) = 2
       /\ ret.log[p].tool_calls[1].name = "read"
       /\ ret.log[p].tool_calls[1].id \in ret.fails
       /\ ret.log[p].tool_calls[2].id \notin ret.fails

\* C8: a model call that fails outright ends the turn as DONE with a fixed
\* error text as the reply, which is appended as the assistant message, and
\* no exception reaches the caller of the loop.
C8_ModelFailureReply ==
  Returned /\ ret.failed =>
    /\ ret.outcome = "DONE"
    /\ ret.reply # ""
    /\ ret.log[Len(ret.log)] = Msg("assistant", ret.reply, <<>>, 0, "", ret.turn)

\* C9: when the model returns no tool calls the reply is its content, or the
\* fixed fallback text when the content is empty, never the empty string;
\* it is the content of the assistant message appended last.
C9_FinalReply ==
  Returned /\ ret.outcome = "DONE" /\ ~ret.failed =>
    /\ ret.reply # ""
    /\ ret.log[Len(ret.log)] = Msg("assistant", ret.reply, <<>>, 0, "", ret.turn)

\* C10: after N turns without tool calls and without compression the history
\* of a session that started new has exactly 2N messages, alternating user,
\* assistant.
C10_TwoN ==
  Idle /\ nturn >= 1 /\ toolRounds = 0 /\ ncompress = 0 /\ nraise = 0 =>
    /\ Len(History) = 2 * nturn
    /\ \A i \in 1..Len(History) :
         History[i].role = IF i % 2 = 1 THEN "user" ELSE "assistant"

\* the add_message calls of the calls in flight and of the one that returned
\* last in which should_compress gave true, so that compress_context ran
Compressions ==
  UNION {{q.checks[i] : i \in {j \in 1..Len(q.checks) : q.checks[j].decision}}
         : q \in Calls}

Min(a, b) == IF a < b THEN a ELSE b

\* C11: on a session without conversation the first model call of a
\* non-hook turn receives exactly [system message, user message], and at the
\* end of the turn the user message is the first entry of the history and the
\* reply the second.
C11_FirstCall ==
  Idle /\ Returned /\ nturn = 1 /\ ret.outcome = "DONE" /\ ret.iter = 0
       /\ ret.ncomp = 0 =>
    LET u == Msg("user", ret.text, <<>>, 0, "", ret.turn)
        a == Msg("assistant", ret.reply, <<>>, 0, "", ret.turn)
    IN /\ Len(ret.sent) = 2
       /\ ret.sent[1].role = "system"
       /\ ret.sent[2] = u
       /\ Len(History) >= 2
       /\ History[1] = u
       /\ History[2] = a

\* C17: every compress_context run keeps the tail: the last
\* min(keep_last_n_messages, length) messages of the history before it are
\* the last messages of the history after it, unchanged and in order.
C17_TailKept ==
  \A e \in Compressions :
    LET n == Min(e.keep_n, Len(e.before))
    IN /\ Len(e.after) >= n
       /\ LastN(e.after, n) = LastN(e.before, n)

\* C18: a compression that runs inside the turn with a client configured, no
\* loaded skills and more than keep_last_n messages leaves exactly
\* keep_last_n + 1 messages: one summary message, then the last keep_last_n.
C18_SummaryAndTail ==
  \A e \in Compressions :
    e.has_llm /\ e.skills = 0 /\ Len(e.before) > e.keep_n =>
      /\ Len(e.after) = e.keep_n + 1
      /\ e.after[1].role = "assistant"
      /\ LastN(e.after, e.keep_n) = LastN(e.before, e.keep_n)

\* C19: when no client is configured or the summary call fails, the history
\* after compress_context is exactly the last keep_last_n messages of the
\* history before it (all of it when it is shorter), never the empty history.
C19_FallbackKeepsTail ==
  \A e \in Compressions :
    ~e.has_llm \/ Len(e.before) > e.keep_n =>
      e.after = LastN(e.before, Min(e.keep_n, Len(e.before)))

\* C20: compress_context runs at most once within one turn.
C20_OncePerTurn == \A q \in Calls : q.ncomp <= 1

\* C21: a compression of a history longer than keep_last_n_messages never
\* increases the token count, whatever summary the client returns.
C21_NoIncrease ==
  \A e \in Compressions :
    Len(e.before) > e.keep_n =>
      count_tokens(e.after) <= count_tokens(e.before)

\* the text, trimmed, starts with "/"
StartsWithSlash(text) ==
  LET t == strip(Chars(text)) IN t # <<>> /\ Head(t) = "/"

\* C22: dispatch returns None exactly for the texts that, trimmed, do not
\* start with "/"; a text that does never reaches the tool-calling loop (no
\* model call, no message appended for it), whether the hook is known,
\* unknown or raises, and a text that does not is never answered by a hook.
C22_HookOrLoop ==
  /\ \A text \in Texts : dispatch(text).kind = "none" <=> ~StartsWithSlash(text)
  /\ nturn > 0 /\ StartsWithSlash(lastText) =>
       /\ Idle /\ Returned /\ ret.turn = nturn
       /\ ret.outcome = "HOOK" /\ ret.nmodel = 0 /\ ret.log = <<>>
       /\ \A i \in 1..Len(History) : History[i].turn # nturn
  /\ nturn > 0 /\ ~StartsWithSlash(lastText) =>
       \A q \in Calls : q.turn = nturn => q.outcome # "HOOK" /\ q.nmodel >= 1

\* a hook text with blanks around it, answered after a chat turn
C22_Witness ==
  /\ Returned /\ nturn = 2 /\ lastText = " /clear "
  /\ ret.hook = "/clear" /\ ret.nmodel = 0

\* the step is the return of a hook command answered as kind, and it left
\* the sessions, the files and the runtime as lines 221-232 of
\* handle_request made them
HookLeftState(kind) ==
  ret'.turn # ret.turn /\ ret'.hook = kind =>
    /\ disk' = disk
    /\ runtime' = PreRuntime(ret'.sid)
    /\ session_metadata' = PreMeta(ret'.sid)
    /\ current_session_id' = PreCurrent(ret'.sid)
    /\ req' = req

C23_Caught ==
  ret.hook = "raise" =>
    /\ ret.pc = "returned" /\ ret.outcome = "HOOK"
    /\ ret.action = "none" /\ ret.action_sid = NoSession
    /\ ret.reply = "Error executing hook"
    /\ ret.detail = {ret.arg, "TypeError"}
    /\ ret.arg \in HookNames

\* C23: an exception raised by a matched handler, coroutine or not (here the
\* TypeError of a call with too many arguments), is returned by dispatch as a
\* result with action NONE whose message carries the hook name and the
\* exception text; dispatch does not raise and the session state is left as
\* it was.
C23_HandlerException ==
  /\ []C23_Caught
  /\ [][HookLeftState("raise")]_vars

\* "/clear x" (a coroutine handler) answered after a chat turn
C23_Witness ==
  /\ Returned /\ nturn = 2 /\ lastText = "/clear x" /\ History # <<>>
  /\ ret.hook = "raise" /\ ret.arg = "/clear"

C24_Unknown ==
  /\ ret.hook = "unknown" =>
       /\ ret.pc = "returned" /\ ret.outcome = "HOOK"
       /\ ret.action = "none" /\ ret.action_sid = NoSession
       /\ ret.detail = HookNames
       /\ ret.arg \notin HookNames
  /\ nturn > 0 /\ StartsWithSlash(lastText) =>
       LET word == Str(lower(split(strip(Chars(lastText)))[1]))
       IN ret.hook = "unknown" <=> word \notin HookNames

\* C24: a "/" text whose first word, lowered, is not a registered name is
\* answered with an error result of action NONE that lists every registered
\* name, no handler runs and no state changes; a registered name is matched
\* in whatever letter case it was typed.
C24_UnknownHook ==
  /\ []C24_Unknown
  /\ [][HookLeftState("unknown")]_vars

\* an unknown name was answered after an earlier request
C24_Witness ==
  /\ Returned /\ nturn = 2 /\ lastText = "/nosuch" /\ ret.hook = "unknown"
  /\ ret.arg = "/nosuch"

\* C25: "/delete <x>" where x resolves, by id or by name, to the active
\* session is refused: the step returns the refusal and leaves the session
\* map, the files and current_session_id as they were.
C25_DeleteActiveRefused ==
  [][ret'.turn # ret.turn /\ ret'.hook = "/delete"
       /\ current_session_id # NoSession
       /\ resolve_session_name(session_metadata, ret'.arg) = current_session_id
     => /\ ret'.reply = "Cannot delete the current active session"
        /\ ret'.pc = "returned"
        /\ session_metadata' = session_metadata
        /\ disk' = disk
        /\ current_session_id' = current_session_id
        /\ runtime' = runtime]_vars

\* the active session was named by its name "a" and the command was refused
C25_Witness ==
  /\ Returned /\ ret.hook = "/delete" /\ ret.arg = "a"
  /\ ret.reply = "Cannot delete the current active session"
  /\ session_metadata[current_session_id].name = "a"
  /\ disk[current_session_id] # NoFile

\* C26: "/switch <x>" where x is no known id and no known name returns a
\* result of action NONE with the error message for x and changes nothing:
\* current_session_id, the active runtime, the session map and the files stay.
C26_SwitchUnknown ==
  [][ret'.turn # ret.turn /\ ret'.hook = "/switch"
       /\ current_session_id # NoSession
       /\ resolve_session_name(session_metadata, ret'.arg) = NoSession
     => /\ ret'.pc = "returned" /\ ret'.reply = "not found"
        /\ ret'.action = "none" /\ ret'.action_sid = NoSession
        /\ current_session_id' = current_session_id
        /\ runtime' = runtime
        /\ session_metadata' = session_metadata
        /\ disk' = disk]_vars

\* an unknown target was named while the record of the active session was
\* behind the session map (a rename whose write failed)
C26_Witness ==
  /\ Returned /\ nturn = 2 /\ ret.hook = "/switch" /\ ret.reply = "not found"
  /\ ret.arg = "t1"
  /\ disk[current_session_id] # NoFile
  /\ disk[current_session_id].name # session_metadata[current_session_id].name

\* C27: "/switch <x>" with a known target x saves the active session and
\* activates x: afterwards current_session_id is the id of x, the runtime
\* holds the history of x and the record of the session that was active
\* holds the history that session had; chat steps write to no record but
\* the one of the active session.
C27_SwitchKnown ==
  /\ [][LET id == resolve_session_name(session_metadata, ret'.arg)
        IN ret'.turn # ret.turn /\ ret'.hook = "/switch"
           /\ current_session_id # NoSession /\ id # NoSession
           => /\ current_session_id' = id
              /\ runtime'.session_id = id
              /\ runtime'.conversation_history =
                   IF id = current_session_id \/ disk[id] = NoFile
                   THEN runtime.conversation_history
                   ELSE disk[id].runtime.conversation_history
              /\ disk'[current_session_id] # NoFile
              /\ disk'[current_session_id].runtime.conversation_history
                   = runtime.conversation_history]_vars
  /\ [][req' # req /\ current_session_id # NoSession
        => \A s \in AllIds \ {current_session_id} : disk'[s] = disk[s]]_vars

\* C28: "/new [name]" on an active session creates a session and activates
\* it: the new id enters the session map and is current_session_id, the
\* runtime is the one of the new id with an empty history and the loaded
\* skills of the session that was active, whose record holds its history;
\* loading or unloading a skill afterwards writes to no record.
C28_NewSession ==
  /\ [][ret'.turn # ret.turn /\ ret'.hook = "/new"
         /\ current_session_id # NoSession
        => /\ current_session_id' # current_session_id
           /\ ~session_metadata[current_session_id'].known
           /\ session_metadata'[current_session_id'].known
           /\ runtime'.session_id = current_session_id'
           /\ runtime'.conversation_history = <<>>
           /\ runtime'.loaded_skills = runtime.loaded_skills
           /\ disk'[current_session_id] # NoFile
           /\ disk'[current_session_id].runtime.conversation_history
                = runtime.conversation_history]_vars
  /\ [][runtime'.loaded_skills # runtime.loaded_skills /\ ret' = ret /\ req' = req
        => disk' = disk /\ current_session_id' = current_session_id]_vars

\* C29: "/rename <name>" gives the active session the name <name> when no
\* session carries it, and else the first free name among name-1, name-2,
\* ...; the name of no other session changes.
C29_Rename ==
  [][ret'.turn # ret.turn /\ ret'.hook = "/rename"
       /\ current_session_id # NoSession
     => /\ session_metadata'[current_session_id].name
             = resolve_duplicate_name(session_metadata, ret'.arg)
        /\ \A s \in AllIds \ {current_session_id} :
             session_metadata'[s] = session_metadata[s]]_vars

\* ShellChannel._handle_action: the session id the adapter remembers after
\* it has looked at the result of a request made with session_id
handle_action(result, session_id) ==
  IF result.action = "switch_session" /\ result.action_sid # NoSession
  THEN result.action_sid
  ELSE IF result.action = "refresh_sessions" /\ result.action_sid # NoSession
  THEN result.action_sid
  ELSE session_id

\* C30: the result of a successful "/switch" or "/new" carries the action
\* SWITCH_SESSION or REFRESH_SESSIONS with the id of the session that is now
\* active, so that the session id of the adapter after _handle_action is
\* current_session_id.
C30_AdapterFollows ==
  ret.pc = "returned" /\ ret.hook \in {"/switch", "/new"}
  /\ ret.reply \in {"Switched to session", "Created new session"}
  => /\ ret.action \in {"switch_session", "refresh_sessions"}
     /\ ret.action_sid = current_session_id
     /\ handle_action(ret, ret.sid) = current_session_id

\* type, content and call id of an event
Shape(ev) == <<ev.type, ev.content, ev.call_id>>

\* the events of the tool rounds of a call, read off the messages log the
\* call appended, from position p on: for an assistant message with tool
\* calls the thinking event if its content is not empty, one tool_call
\* event per call, and one tool_result event per tool message that follows
RECURSIVE RoundShapes(_, _)
RoundShapes(log, p) ==
  IF p > Len(log) THEN <<>>
  ELSE LET m == log[p]
       IN (IF m.role = "assistant" /\ m.tool_calls # <<>>
           THEN (IF m.content # "" THEN <<<<"assistant_thinking", m.content, 0>>>>
                 ELSE <<>>)
                \o [i \in 1..Len(m.tool_calls) |->
                      <<"tool_call", m.tool_calls[i].name, m.tool_calls[i].id>>]
           ELSE IF m.role = "tool"
           THEN <<<<"tool_result", m.name, m.tool_call_id>>>>
           ELSE <<>>)
          \o RoundShapes(log, p + 1)

\* the tool messages of the round in progress have their events when the
\* round is complete
EventsOf(q) ==
  <<<<"user_input", q.text, 0>>>>
  \o RoundShapes(q.log, 1)
  \o (IF q.pc = "returned" /\ q.outcome \in {"DONE", "LIMIT"}
      THEN <<<<"assistant_response", q.reply, 0>>>> ELSE <<>>)

C32_CallbackNoEffect ==
  \A q \in Calls :
    q.on_message.present /\ nraise = 0 =>
      /\ q.outcome # "EXC"
      /\ q.pc # "idle" => Len(q.log) >= 1 /\ q.log[1].role = "user"
      /\ q.pc \in {"model", "tool"} => q.nmodel = q.iter + 1
      /\ q.pc = "tool" => q.log[Len(q.log)].tool_calls = q.calls
      /\ RoundsOK(q)
      /\ q.pc = "returned" =>
           /\ q.outcome \in {"DONE", "LIMIT"}
           /\ q.reply = (IF q.outcome = "LIMIT" THEN LimitReply ELSE q.answer)
           /\ q.log[Len(q.log)] = Msg("assistant", q.reply, <<>>, 0, "", q.turn)
           /\ q.saved = "ok"

\* a call whose callback raised at every event has returned after a round
C32_Witness ==
  /\ Returned /\ ret.outcome = "DONE" /\ ret.reply = "ok"
  /\ ret.on_message.raises = EventTypes
  /\ ret.nmodel = 2 /\ Len(ret.events) >= 5

\* C33: the tool_result event of a tool call reports the outcome of the
\* call: success is true exactly when the handler completed without an
\* exception, and for a call whose handler raised or whose tool is unknown
\* the event carries the error.
C33_ToolResultOutcome ==
  \A q \in Calls :
    \A i \in 1..Len(q.events) :
      q.events[i].type = "tool_result" =>
        /\ q.events[i].success <=> q.events[i].call_id \notin q.fails
        /\ q.events[i].call_id \in q.fails => q.events[i].error # ""

\* C34: the tools offered to the model are resolved from the enabled-tool
\* list of the session: ["all"] gives the definition of every registered
\* tool, an empty list gives none, any other list gives the definitions of
\* its registered names in list order, unknown names dropped without error.
C34_ToolSet ==
  ret.pc = "returned" /\ ret.text = "hi" /\ ret.hook = "" =>
    /\ ret.outcome # "EXC"
    /\ ret.tools =
         IF ret.enabled_tools = <<"all">> THEN AllDefinitions
         ELSE LET kept == SelectSeq(ret.enabled_tools,
                                    LAMBDA n : n \in RegisteredTools)
              IN [i \in 1..Len(kept) |-> to_openai_format(kept[i])]

\* C12: when a handle_request call has returned (a model turn, or a hook
\* command), the record of the session on disk holds the conversation
\* history the session has in memory (stated for calls that name the current
\* session and whose write, if they made one, did not fail).
C12_Persisted ==
  Idle /\ Returned /\ ret.turn = nturn /\ ret.sid = current_session_id
       /\ ret.saved # "failed" =>
    /\ disk[ret.sid] \notin {NoFile, CorruptFile}
    /\ disk[ret.sid].runtime.conversation_history = History

\* C13: saving the state of the current session and loading it again gives
\* a state with the same conversation_history, max_tokens, ratio_of_compress,
\* keep_last_n_messages and session_id, also when the state has loaded skills.
C13_RoundTrip ==
  current_session_id # NoSession /\ runtime.session_id = current_session_id =>
    LET d1 == save_session(disk, session_metadata, current_session_id, runtime, TRUE)
        l == load_session(d1, session_metadata, runtime, current_session_id)
    IN /\ l.loaded = "ok"
       /\ l.runtime.conversation_history = runtime.conversation_history
       /\ l.runtime.max_tokens = runtime.max_tokens
       /\ l.runtime.ratio10 = runtime.ratio10
       /\ l.runtime.keep_last_n_messages = runtime.keep_last_n_messages
       /\ l.runtime.session_id = runtime.session_id

\* C14: when /switch names a known session whose record is missing or
\* corrupt, the request does not fail: the session becomes the current one
\* with an empty new state for its id.
C14_LoadFallback ==
  Idle /\ Returned /\ ret.turn = nturn /\ ret.hook = "/switch"
       /\ ret.loaded \in {"missing", "corrupt"} =>
    /\ ret.reply # "Failed to load session"
    /\ current_session_id = resolve_session_name(session_metadata, ret.arg)
    /\ runtime.session_id = current_session_id
    /\ \A i \in 1..Len(runtime.conversation_history) :
         runtime.conversation_history[i].role = "system"

\* C15: handle_request returns a result for every input and lets no
\* exception reach the transport adapter; it returns a message whatever fails: the error text for
\* a raising client, the hook error for a raising handler, the failure
\* message for a record that cannot be loaded, and the model's reply when
\* only the save fails; a raising tool ends in a normal return.
C15_AlwaysReturns ==
  /\ ret.pc \in {"idle", "returned"}
  /\ Returned =>
       /\ ret.outcome \in {"DONE", "LIMIT", "EXC", "HOOK"}
       /\ ret.outcome = "EXC" => ret.reply = "Agent error"
       /\ ret.hook = "raise" => ret.outcome = "HOOK" /\ ret.reply = "Error executing hook"
       /\ ret.loaded \in {"missing", "corrupt", "raise"} =>
            ret.outcome = "HOOK" /\ ret.reply = "Failed to load session"
       /\ ret.outcome = "DONE" /\ ret.saved = "failed" => ret.reply = ret.answer
       /\ ret.fails # {} => ret.outcome \in {"DONE", "LIMIT", "EXC"}

\* C16: whenever add_message evaluates should_compress, the value is true
\* exactly when the tokens of the history it is evaluated on are more than
\* max_tokens * ratio_of_compress, also after the assistant tool-call message
\* was appended directly and after the runtime was loaded from a record.
C16_ShouldCompress ==
  \A q \in Calls : \A i \in 1..Len(q.checks) :
    LET e == q.checks[i]
    IN e.decision <=> 10 * count_tokens(e.before) > e.max_tokens * e.ratio10

C16_Witness ==
  /\ Returned /\ ret.iter >= 1
  /\ \E i \in 1..Len(ret.checks) :
       /\ ret.checks[i].decision
       /\ \E j \in 1..Len(ret.checks[i].before) :
            ret.checks[i].before[j].tool_calls # <<>>

\* C35: the message of a hook command is determined by the state the command
\* is given on: whenever /new has created a session, the message it returned
\* is the message /new returns on that state and argument at every reading of
\* the clock; only the collision counter of the name varies with the state.
C35_HookDeterministic ==
  [][(ret'.turn # ret.turn /\ ret'.hook = "/new"
        /\ ret'.reply = "Created new session") =>
       \A adv \in BOOLEAN :
         clock + (IF adv THEN 1 ELSE 0) \in 1..Len(TimeIds) =>
           ret'.detail = {new_session_name(PreMeta(ret'.sid), ret'.arg,
                                           generate_session_id(adv)),
                          generate_session_id(adv)}]_vars

\* C36: the loaded skills of the active session are unique by name after
\* every load_skill, unload_skill, clear_skills and /new; load_skill of a
\* name that is loaded returns False and leaves loaded_skills and the system
\* prompt as they were; a load or unload that changed loaded_skills returned
\* True and left a system prompt rebuilt from the loaded skills it left.
C36_SkillSet ==
  /\ \A i, j \in 1..Len(runtime.loaded_skills) :
       runtime.loaded_skills[i].name = runtime.loaded_skills[j].name => i = j
  /\ ret.hook \in {"load_skill", "unload_skill"} =>
       LET e == ret.checks[1]
           names == [i \in 1..Len(e.after) |-> e.after[i].name]
       IN /\ (ret.hook = "load_skill"
                /\ \E i \in 1..Len(e.before) : e.before[i].name = ret.arg) =>
               /\ ret.reply = "False"
               /\ e.after = e.before
               /\ e.prompt_after = e.prompt_before
          /\ e.after # e.before =>
               /\ ret.reply = "True"
               /\ e.prompt_after = names

\* the parts of C36 that do not depend on the rebuild: uniqueness, and the
\* refused load of a loaded name
C36_UniqueRefused ==
  /\ \A i, j \in 1..Len(runtime.loaded_skills) :
       runtime.loaded_skills[i].name = runtime.loaded_skills[j].name => i = j
  /\ (ret.hook = "load_skill"
        /\ \E i \in 1..Len(ret.checks[1].before) :
             ret.checks[1].before[i].name = ret.arg) =>
       /\ ret.reply = "False"
       /\ ret.checks[1].after = ret.checks[1].before
       /\ ret.checks[1].prompt_after = ret.checks[1].prompt_before

\* C37: every record on disk holds the state of the session it is filed
\* under: the runtime stored in the record of session X is the runtime of
\* session X, whatever command or turn wrote it.
C37_OwnRecord ==
  \A x \in AllIds :
    disk[x] \notin {NoFile, CorruptFile} => disk[x].runtime.session_id = x

\* C38: whenever /new has created a session, the id of the new session was
\* not an id of the session map before the command, also when the previous
\* /new was handled within the same second of the clock.
C38_FreshId ==
  [][(ret'.turn # ret.turn /\ ret'.hook = "/new"
        /\ ret'.reply = "Created new session") =>
       /\ current_session_id' \notin KnownIds(PreMeta(ret'.sid))
       /\ \A x \in KnownIds(PreMeta(ret'.sid)) :
            session_metadata'[x] = PreMeta(ret'.sid)[x]]_vars

\* C39: whenever current_session_id is not None it is a key of
\* session_metadata: after start-up loading and after every request, /new,
\* /switch, /delete and /rename the active session is in the session map.
C39_CurrentKnown ==
  current_session_id # NoSession => session_metadata[current_session_id].known

\* a session other than the active one has been deleted
C39_Witness ==
  /\ Returned /\ ret.hook = "/delete" /\ ret.reply = "Deleted session"
  /\ current_session_id # NoSession
  /\ Cardinality(KnownIds(session_metadata)) >= 1

\* C40: the names of the sessions in session_metadata are pairwise distinct
\* and no session's name is the id of another session, so that a name or id
\* given to /switch or /delete denotes at most one session.
C40_NamesDistinct ==
  \A x, y \in KnownIds(session_metadata) :
    x # y => /\ session_metadata[x].name # session_metadata[y].name
             /\ session_metadata[x].name # y

\* the part of C40 about names alone
C40_NamesPairwise ==
  \A x, y \in KnownIds(session_metadata) :
    x # y => session_metadata[x].name # session_metadata[y].name

====
